---- MODULE Spec2Model ----
(***************************************************************************)
(* The activity ledger and the staged scan simulation of                   *)
(* src/engine/api/main.py: the in-memory registries, the boundary          *)
(* handlers that change them, and the simulate_scan coroutine cut at its   *)
(* await points.                                                           *)
(*                                                                         *)
(* Conventions.  A registry function of the source takes the registries it *)
(* reads and writes as one record S (the "store") and returns the store it *)
(* leaves behind, so a handler is the composition of the calls it makes.   *)
(* uuid4() is modelled by identifiers that are fresh by construction: an   *)
(* activity is named by its position in ACTIVITIES, a scan by its position *)
(* in SCAN_STATUSES, a run and an artifact by <<owner, ordinal>>.          *)
(* datetime.now() reads the clock `now`, counted in units of               *)
(* 1/TicksPerSecond second; only Activities keep their timestamps, the     *)
(* timestamps of runs, logs, artifacts, scans and findings are left out.   *)
(***************************************************************************)
EXTENDS Integers, Sequences, FiniteSets, TLC

VARIABLES
    SCAN_STATUSES,   \* main.py:88   scan id -> scan record (a sequence: ids are 1..Len)
    ACTIVITIES,      \* main.py:91   list of activity records
    ACTIVITY_RUNS,   \* main.py:92   activity id -> list of runs
    ACTIVITY_LOGS,   \* main.py:93   activity id -> list of log entries
    ARTIFACTS,       \* main.py:94   artifact id -> artifact
    FINDINGS,        \* main.py:82   list of findings
    emitted,         \* the events the last step handed to sio.emit, in order
    task,            \* scan id -> the simulate_scan task of the scan: its position
                     \* (pc) and its locals (stage index, activity_id, run_id)
    now,             \* the clock datetime.now() reads
    response         \* what the last boundary call returned (NoResponse after any other step)

vars == <<SCAN_STATUSES, ACTIVITIES, ACTIVITY_RUNS, ACTIVITY_LOGS, ARTIFACTS,
          FINDINGS, emitted, task, now, response>>

-----------------------------------------------------------------------------
(* Bounds of the model *)

MaxScans == 1
MaxTime == 1
\* activities created by direct calls of the tracking functions
MaxLedger == 1
\* cancellations accepted while direct calls may reopen an activity
MaxCancels == 1
\* activities in the registry a listing is taken of
MaxActivities == 3
\* clock units that pass while durations are measured
MaxClock == 4

\* scans simulated at the same time
MaxConcurrent == 2

\* activities, runs per identifier, log entries per identifier and artifacts of the
\* direct calls
MaxTracked == 1
MaxRuns == 1
MaxLogs == 3
MaxArtifacts == 2

(* Program constants *)

TicksPerSecond == 2

None == "None"
NoId == 0
NoRun == <<>>

-----------------------------------------------------------------------------
(* datetime: now().isoformat(), fromisoformat() and the whole-second      *)
(* difference, main.py:392, 447-450.  A datetime is a count of clock       *)
(* units; its ISO string is modelled by its seconds and fraction fields.   *)

isoformat(t) == [sec |-> t \div TicksPerSecond, frac |-> t % TicksPerSecond]

fromisoformat(iso) == iso.sec * TicksPerSecond + iso.frac

NoTime == [sec |-> -1, frac |-> 0]

\* variant: a started second counts as a whole one
total_seconds_ceil(d) == (d + TicksPerSecond - 1) \div TicksPerSecond

\* int(timedelta.total_seconds()): truncation toward zero
total_seconds_int(d) ==
    IF d >= 0 THEN d \div TicksPerSecond ELSE -((-d) \div TicksPerSecond)

\* the order of two ISO strings as Python compares str: chronological here
IsoLess(a, b) == a.sec < b.sec \/ (a.sec = b.sec /\ a.frac < b.frac)

-----------------------------------------------------------------------------
(* Static data, main.py:35-86 *)

PROGRAMS ==
    << [id |-> "h1-google", name |-> "Google VRP"],
       [id |-> "apple-vrp", name |-> "Apple Security Bounty"],
       [id |-> "msrc", name |-> "Microsoft (MSRC)"],
       [id |-> "github", name |-> "GitHub"] >>

\* a finding has no "approvedAt" key until it is approved: the key is kept, with NoTime
SeedFindings ==
    << [id |-> "f1", programId |-> "github", type |-> "IDOR", severity10 |-> 75,
        status |-> "ready_to_submit", payoutEst |-> 8000, activityId |-> NoId,
        approvedAt |-> NoTime],
       [id |-> "f2", programId |-> "h1-google", type |-> "SSRF", severity10 |-> 88,
        status |-> "needs_human", payoutEst |-> 25000, activityId |-> NoId,
        approvedAt |-> NoTime],
       [id |-> "f3", programId |-> "msrc", type |-> "AuthZ bypass", severity10 |-> 91,
        status |-> "queued", payoutEst |-> 15000, activityId |-> NoId,
        approvedAt |-> NoTime] >>

\* f"f{len(FINDINGS) + 1}", main.py:311
FindingName(n) == "f" \o ToString(n)

StagesReordered ==
    << [status |-> "analyzing", description |-> "Vulnerability Analysis",
        progress |-> 40, job_name |-> "analysis"],
       [status |-> "scanning", description |-> "Asset Discovery",
        progress |-> 20, job_name |-> "recon"],
       [status |-> "exploiting", description |-> "Exploit Testing",
        progress |-> 70, job_name |-> "exploitation"],
       [status |-> "reporting", description |-> "Report Generation",
        progress |-> 90, job_name |-> "reporting"],
       [status |-> "completed", description |-> "Scan Complete",
        progress |-> 100, job_name |-> "completion"] >>

\* the stage table, main.py:261-267
Stages ==
    << [status |-> "scanning", description |-> "Asset Discovery",
        progress |-> 20, job_name |-> "recon"],
       [status |-> "analyzing", description |-> "Vulnerability Analysis",
        progress |-> 40, job_name |-> "analysis"],
       [status |-> "exploiting", description |-> "Exploit Testing",
        progress |-> 70, job_name |-> "exploitation"],
       [status |-> "reporting", description |-> "Report Generation",
        progress |-> 90, job_name |-> "reporting"],
       [status |-> "completed", description |-> "Scan Complete",
        progress |-> 100, job_name |-> "completion"] >>

TerminalActivityStatuses == {"completed", "failed", "cancelled"}

Min(a, b) == IF a <= b THEN a ELSE b
Max(a, b) == IF a >= b THEN a ELSE b

-----------------------------------------------------------------------------
(* The store: the registries a handler reads and writes, and the events it *)
(* has published so far                                                    *)

Store ==
    [SCAN_STATUSES |-> SCAN_STATUSES, ACTIVITIES |-> ACTIVITIES,
     ACTIVITY_RUNS |-> ACTIVITY_RUNS, ACTIVITY_LOGS |-> ACTIVITY_LOGS,
     ARTIFACTS |-> ARTIFACTS, FINDINGS |-> FINDINGS, emitted |-> <<>>]

Commit(S) ==
    /\ SCAN_STATUSES' = S.SCAN_STATUSES
    /\ ACTIVITIES' = S.ACTIVITIES
    /\ ACTIVITY_RUNS' = S.ACTIVITY_RUNS
    /\ ACTIVITY_LOGS' = S.ACTIVITY_LOGS
    /\ ARTIFACTS' = S.ARTIFACTS
    /\ FINDINGS' = S.FINDINGS
    /\ emitted' = S.emitted

\* next(a for a in ACTIVITIES if a["id"] == activity_id): index of the first match, 0 if none
ActivityIndex(acts, activity_id) ==
    IF \E i \in 1..Len(acts) : acts[i].id = activity_id
    THEN CHOOSE i \in 1..Len(acts) :
            /\ acts[i].id = activity_id
            /\ \A j \in 1..(i - 1) : acts[j].id # activity_id
    ELSE 0

\* sio.emit(name, payload), main.py:123, 147, 170, 288, 332, 378, 379, 578; of the payload
\* the event keeps the identifier (as a string) and the status, and `line` tells the
\* emitting statement
emit(S, name, line, id, status) ==
    [S EXCEPT !.emitted = Append(@, [name |-> name, line |-> line,
                                     id |-> id, status |-> status])]

\* str(uuid.uuid4()) of create_activity, main.py:384
NewActivityId(S) == Len(S.ACTIVITIES) + 1

create_activity(S, activity_type, title, program_id, triggered_by) ==
    LET activity_id == NewActivityId(S)
        activity == [id |-> activity_id, type |-> activity_type, title |-> title,
                     programId |-> program_id, triggeredBy |-> triggered_by,
                     status |-> "queued", startTime |-> isoformat(now),
                     endTime |-> NoTime, duration |-> -1, conclusion |-> None,
                     artifacts |-> <<>>, runCount |-> 0]
    IN [S EXCEPT !.ACTIVITIES = Append(@, activity),
                 !.ACTIVITY_RUNS = (activity_id :> <<>>) @@ @,
                 !.ACTIVITY_LOGS = (activity_id :> <<>>) @@ @]

\* str(uuid.uuid4()) of create_activity_run, main.py:406
NewRunId(S, activity_id) ==
    <<activity_id,
      IF activity_id \in DOMAIN S.ACTIVITY_RUNS
      THEN Len(S.ACTIVITY_RUNS[activity_id]) + 1 ELSE 1>>

\* variant: the run is filed under the Activity created last
create_activity_run_latest(S, activity_id, job_name, step_name) ==
    LET latest == S.ACTIVITIES[Len(S.ACTIVITIES)].id
        run == [id |-> NewRunId(S, latest), activityId |-> activity_id,
                jobName |-> job_name, stepName |-> step_name, status |-> "queued",
                endTime |-> None, conclusion |-> None]
    IN [S EXCEPT !.ACTIVITY_RUNS = (latest :> Append(@[latest], run)) @@ @]

create_activity_run(S, activity_id, job_name, step_name) ==
    LET run == [id |-> NewRunId(S, activity_id), activityId |-> activity_id,
                jobName |-> job_name, stepName |-> step_name, status |-> "queued",
                endTime |-> None, conclusion |-> None]
        runs == IF activity_id \in DOMAIN S.ACTIVITY_RUNS
                THEN S.ACTIVITY_RUNS[activity_id] ELSE <<>>
    IN [S EXCEPT !.ACTIVITY_RUNS = (activity_id :> Append(runs, run)) @@ @]

\* variant: an entry for an identifier without a log sequence is dropped
log_activity_strict(S, activity_id, level, message, run_id) ==
    LET log_entry == [level |-> level, message |-> message, runId |-> run_id]
    IN IF activity_id \in DOMAIN S.ACTIVITY_LOGS
       THEN [S EXCEPT !.ACTIVITY_LOGS[activity_id] = Append(@, log_entry)]
       ELSE S

\* variant: the entry is put at the head of the sequence
log_activity_prepend(S, activity_id, level, message, run_id) ==
    LET log_entry == [level |-> level, message |-> message, runId |-> run_id]
        logs == IF activity_id \in DOMAIN S.ACTIVITY_LOGS
                THEN S.ACTIVITY_LOGS[activity_id] ELSE <<>>
    IN [S EXCEPT !.ACTIVITY_LOGS = (activity_id :> (<<log_entry>> \o logs)) @@ @]

\* main.py:426-437
log_activity(S, activity_id, level, message, run_id) ==
    LET log_entry == [level |-> level, message |-> message, runId |-> run_id]
        logs == IF activity_id \in DOMAIN S.ACTIVITY_LOGS
                THEN S.ACTIVITY_LOGS[activity_id] ELSE <<>>
    IN [S EXCEPT !.ACTIVITY_LOGS = (activity_id :> Append(logs, log_entry)) @@ @]

\* variant: endTime and duration are stamped only together with a conclusion
SetActivityStatusConcluded(activity, status, conclusion) ==
    LET a1 == [activity EXCEPT !.status = status]
        a2 == IF conclusion # None THEN [a1 EXCEPT !.conclusion = conclusion] ELSE a1
    IN IF status \in TerminalActivityStatuses /\ conclusion # None
       THEN LET endTime == isoformat(now)
            IN [a2 EXCEPT !.endTime = endTime,
                          !.duration = total_seconds_int(
                              fromisoformat(endTime) - fromisoformat(a2.startTime))]
       ELSE a2

\* the body of the loop of update_activity_status for the matching activity, main.py:443-450
SetActivityStatus(activity, status, conclusion) ==
    LET a1 == [activity EXCEPT !.status = status]
        a2 == IF conclusion # None THEN [a1 EXCEPT !.conclusion = conclusion] ELSE a1
    IN IF status \in TerminalActivityStatuses
       THEN LET endTime == isoformat(now)
            IN [a2 EXCEPT !.endTime = endTime,
                          !.duration = total_seconds_int(
                              fromisoformat(endTime) - fromisoformat(a2.startTime))]
       ELSE a2

\* variant: without a match the status goes to the Activity created last
update_activity_status_last(S, activity_id, status, conclusion) ==
    LET i == ActivityIndex(S.ACTIVITIES, activity_id)
        n == Len(S.ACTIVITIES)
    IN IF i # 0 THEN [S EXCEPT !.ACTIVITIES[i] = SetActivityStatus(@, status, conclusion)]
       ELSE IF n = 0 THEN S
       ELSE [S EXCEPT !.ACTIVITIES[n] = SetActivityStatus(@, status, conclusion)]

update_activity_status(S, activity_id, status, conclusion) ==
    LET i == ActivityIndex(S.ACTIVITIES, activity_id)
    IN IF i = 0 THEN S
       ELSE [S EXCEPT !.ACTIVITIES[i] = SetActivityStatus(@, status, conclusion)]

\* str(uuid.uuid4()) of add_artifact, main.py:455
NewArtifactId(S, activity_id) ==
    <<activity_id, Cardinality({k \in DOMAIN S.ARTIFACTS : k[1] = activity_id}) + 1>>

\* variant: the artifact does not record the run
add_artifact_norun(S, activity_id, name, content, artifact_type, run_id) ==
    LET artifact_id == NewArtifactId(S, activity_id)
        artifact == [id |-> artifact_id, name |-> name, type |-> artifact_type,
                     content |-> content, size |-> Len(content), runId |-> NoRun]
        i == ActivityIndex(S.ACTIVITIES, activity_id)
        S1 == [S EXCEPT !.ARTIFACTS = (artifact_id :> artifact) @@ @]
    IN IF i = 0 THEN S1
       ELSE [S1 EXCEPT !.ACTIVITIES[i].artifacts = Append(@, artifact_id)]

\* variant: the artifact is put in the list of every Activity
add_artifact_all(S, activity_id, name, content, artifact_type, run_id) ==
    LET artifact_id == NewArtifactId(S, activity_id)
        artifact == [id |-> artifact_id, name |-> name, type |-> artifact_type,
                     content |-> content, size |-> Len(content), runId |-> run_id]
    IN [S EXCEPT !.ARTIFACTS = (artifact_id :> artifact) @@ @,
                 !.ACTIVITIES = [i \in 1..Len(@) |->
                                    [@[i] EXCEPT !.artifacts = Append(@, artifact_id)]]]

\* variant: an artifact for an identifier without an Activity is not stored
add_artifact_linked(S, activity_id, name, content, artifact_type, run_id) ==
    LET artifact_id == NewArtifactId(S, activity_id)
        artifact == [id |-> artifact_id, name |-> name, type |-> artifact_type,
                     content |-> content, size |-> Len(content), runId |-> run_id]
        i == ActivityIndex(S.ACTIVITIES, activity_id)
    IN IF i = 0 THEN S
       ELSE [S EXCEPT !.ARTIFACTS = (artifact_id :> artifact) @@ @,
                      !.ACTIVITIES[i].artifacts = Append(@, artifact_id)]

\* main.py:453-472
add_artifact(S, activity_id, name, content, artifact_type, run_id) ==
    LET artifact_id == NewArtifactId(S, activity_id)
        artifact == [id |-> artifact_id, name |-> name, type |-> artifact_type,
                     content |-> content, size |-> Len(content), runId |-> run_id]
        i == ActivityIndex(S.ACTIVITIES, activity_id)
        S1 == [S EXCEPT !.ARTIFACTS = (artifact_id :> artifact) @@ @]
    IN IF i = 0 THEN S1
       ELSE [S1 EXCEPT !.ACTIVITIES[i].artifacts = Append(@, artifact_id)]

-----------------------------------------------------------------------------
(* simulate_scan, main.py:243-379, cut at its await points *)

\* main.py:246-247
ProgramName(program_id) ==
    IF \E i \in 1..Len(PROGRAMS) : PROGRAMS[i].id = program_id
    THEN PROGRAMS[CHOOSE i \in 1..Len(PROGRAMS) : PROGRAMS[i].id = program_id].name
    ELSE program_id

\* program_name.lower().replace(' ', ''), main.py:295, 328
Slug(program_name) ==
    CASE program_name = "Google VRP" -> "googlevrp"
      [] program_name = "Apple Security Bounty" -> "applesecuritybounty"
      [] program_name = "Microsoft (MSRC)" -> "microsoft(msrc)"
      [] program_name = "GitHub" -> "github"
      [] OTHER -> program_name

\* main.py:281-282
AssetsFound(progress) == Min(progress \div 10, 15)
\* variant: the max(0, ...) of main.py:282 is missing
VulnerabilitiesFoundUnclamped(progress) == (progress - 30) \div 20
VulnerabilitiesFound(progress) == Max(0, (progress - 30) \div 20)

\* variant: only the last Run of the activity is ever completed, whatever run_id says
complete_run_last(S, activity_id, run_id) ==
    IF ActivityIndex(S.ACTIVITIES, activity_id) = 0 \/ activity_id \notin DOMAIN S.ACTIVITY_RUNS
    THEN S
    ELSE LET runs == S.ACTIVITY_RUNS[activity_id]
         IN IF Len(runs) = Len(Stages)
            THEN [S EXCEPT !.ACTIVITY_RUNS[activity_id][Len(runs)] =
                    [@ EXCEPT !.status = "completed", !.conclusion = "success",
                              !.endTime = "set"]]
            ELSE S

\* main.py:356-366
complete_run(S, activity_id, run_id) ==
    IF ActivityIndex(S.ACTIVITIES, activity_id) = 0 \/ activity_id \notin DOMAIN S.ACTIVITY_RUNS
    THEN S
    ELSE LET runs == S.ACTIVITY_RUNS[activity_id]
         IN IF \E j \in 1..Len(runs) : runs[j].id = run_id
            THEN LET j == CHOOSE j \in 1..Len(runs) :
                            /\ runs[j].id = run_id
                            /\ \A h \in 1..(j - 1) : runs[h].id # run_id
                 IN [S EXCEPT !.ACTIVITY_RUNS[activity_id][j] =
                        [@ EXCEPT !.status = "completed", !.conclusion = "success",
                                  !.endTime = "set"]]
            ELSE S

\* main.py:368-371, up to the await of line 378
after_loop(S, T, scan_id) ==
    LET scan == S.SCAN_STATUSES[scan_id]
    IN IF scan.status # "stopped"
       THEN [S |-> log_activity(
                     update_activity_status(S, T.activity_id, "completed", "success"),
                     T.activity_id, "success", "Scan completed successfully", NoRun),
             T |-> [T EXCEPT !.pc = "final_scan"]]
       ELSE [S |-> S, T |-> [T EXCEPT !.pc = "final_scan"]]

\* variant: the boundary check of main.py:271 looks at the wrong status
stage_begin_unchecked(S, T, scan_id, k) ==
    LET scan == S.SCAN_STATUSES[scan_id]
        st == Stages[k]
    IN IF scan.status = "cancelled"
       THEN after_loop(
                log_activity(
                    update_activity_status(S, T.activity_id, "cancelled", "cancelled"),
                    T.activity_id, "warning", "Scan cancelled by user", NoRun),
                [T EXCEPT !.stage = k], scan_id)
       ELSE LET run_id == NewRunId(S, T.activity_id)
                S1 == create_activity_run(S, T.activity_id, st.job_name, st.description)
                S2 == [S1 EXCEPT !.SCAN_STATUSES[scan_id] =
                          [@ EXCEPT !.status = st.status,
                                    !.progress = st.progress,
                                    !.assetsFound = AssetsFound(st.progress),
                                    !.vulnerabilitiesFound = VulnerabilitiesFound(st.progress)]]
                S3 == log_activity(S2, T.activity_id, "info", "Started " \o st.description,
                                   run_id)
                S4 == emit(S3, "scan_update", 288, ToString(scan_id), st.status)
            IN [S |-> S4, T |-> [T EXCEPT !.pc = "delay", !.stage = k, !.run_id = run_id]]

\* main.py:270-289: from the top of the loop body for stage k to the await of lines 288-289
stage_begin(S, T, scan_id, k) ==
    LET scan == S.SCAN_STATUSES[scan_id]
        st == Stages[k]
    IN IF scan.status = "stopped"
       THEN after_loop(
                log_activity(
                    update_activity_status(S, T.activity_id, "cancelled", "cancelled"),
                    T.activity_id, "warning", "Scan cancelled by user", NoRun),
                [T EXCEPT !.stage = k], scan_id)
       ELSE LET run_id == NewRunId(S, T.activity_id)
                S1 == create_activity_run(S, T.activity_id, st.job_name, st.description)
                S2 == [S1 EXCEPT !.SCAN_STATUSES[scan_id] =
                          [@ EXCEPT !.status = st.status,
                                    !.progress = st.progress,
                                    !.assetsFound = AssetsFound(st.progress),
                                    !.vulnerabilitiesFound = VulnerabilitiesFound(st.progress)]]
                S3 == log_activity(S2, T.activity_id, "info", "Started " \o st.description,
                                   run_id)
                S4 == emit(S3, "scan_update", 288, ToString(scan_id), st.status)
            IN [S |-> S4, T |-> [T EXCEPT !.pc = "delay", !.stage = k, !.run_id = run_id]]

\* variant: only the first pass of the loop looks at the stop flag
next_iteration_unchecked(S, T, scan_id) ==
    IF T.stage < Len(Stages)
    THEN stage_begin_unchecked(S, T, scan_id, T.stage + 1)
    ELSE after_loop(S, T, scan_id)

\* the for statement of main.py:270 after stage k: the next stage, or the end of the loop
next_iteration(S, T, scan_id) ==
    IF T.stage < Len(Stages)
    THEN stage_begin(S, T, scan_id, T.stage + 1)
    ELSE after_loop(S, T, scan_id)

\* variant: the Activity is created under the program's name
sim_enter_named(S, T, scan_id) ==
    LET scan == S.SCAN_STATUSES[scan_id]
        program_name == ProgramName(scan.programId)
        activity_id == NewActivityId(S)
        S1 == create_activity(S, "scan", "Vulnerability Scan: " \o program_name,
                              program_name, "automated")
        S2 == [S1 EXCEPT !.SCAN_STATUSES[scan_id].activityId = activity_id]
        S3 == update_activity_status(S2, activity_id, "in_progress", None)
        S4 == log_activity(S3, activity_id, "info", "Starting vulnerability scan", NoRun)
    IN stage_begin(S4, [T EXCEPT !.activity_id = activity_id], scan_id, 1)

\* main.py:245-259, then the loop is entered
sim_enter(S, T, scan_id) ==
    LET scan == S.SCAN_STATUSES[scan_id]
        program_name == ProgramName(scan.programId)
        activity_id == NewActivityId(S)
        S1 == create_activity(S, "scan", "Vulnerability Scan: " \o program_name,
                              scan.programId, "automated")
        S2 == [S1 EXCEPT !.SCAN_STATUSES[scan_id].activityId = activity_id]
        S3 == update_activity_status(S2, activity_id, "in_progress", None)
        S4 == log_activity(S3, activity_id, "info", "Starting vulnerability scan", NoRun)
    IN stage_begin(S4, [T EXCEPT !.activity_id = activity_id], scan_id, 1)

\* variant: the manufactured finding enters the registry as queued
new_finding_queued(S, T, scan_id) ==
    [id |-> FindingName(Len(S.FINDINGS) + 1),
     programId |-> S.SCAN_STATUSES[scan_id].programId,
     type |-> "XSS", severity10 |-> 65, status |-> "queued", payoutEst |-> 5000,
     activityId |-> T.activity_id, approvedAt |-> NoTime]

\* variant: the Finding is filed under the first program of the catalog
new_finding_catalog(S, T, scan_id) ==
    [id |-> FindingName(Len(S.FINDINGS) + 1),
     programId |-> PROGRAMS[1].id,
     type |-> "XSS", severity10 |-> 65, status |-> "needs_human", payoutEst |-> 5000,
     activityId |-> T.activity_id, approvedAt |-> NoTime]

\* variant: the identifier counts the findings of the scan's own Activity
new_finding_own(S, T, scan_id) ==
    [id |-> FindingName(Len(SeedFindings) + 1
                          + Cardinality({i \in 1..Len(S.FINDINGS) :
                                            S.FINDINGS[i].activityId = T.activity_id})),
     programId |-> S.SCAN_STATUSES[scan_id].programId,
     type |-> "XSS", severity10 |-> 65, status |-> "needs_human", payoutEst |-> 5000,
     activityId |-> T.activity_id, approvedAt |-> NoTime]

\* main.py:310-321
new_finding(S, T, scan_id) ==
    [id |-> FindingName(Len(S.FINDINGS) + 1),
     programId |-> S.SCAN_STATUSES[scan_id].programId,
     type |-> "XSS", severity10 |-> 65, status |-> "needs_human", payoutEst |-> 5000,
     activityId |-> T.activity_id, approvedAt |-> NoTime]

\* main.py:292-354: the side effects of the stage after its delay, up to the await of
\* line 332 (exploitation) or to the end of the if chain
stage_effects(S, T, scan_id) ==
    LET scan == S.SCAN_STATUSES[scan_id]
        a == T.activity_id
        run_id == T.run_id
        job_name == Stages[T.stage].job_name
        slug == Slug(ProgramName(scan.programId))
        Log(R, level, message) == log_activity(R, a, level, message, run_id)
    IN CASE job_name = "recon" ->
              Log(add_artifact(
                      Log(S, "info", "Discovering subdomains"),
                      a, "subdomain_list.txt",
                      "api." \o slug \o ".com\nadmin." \o slug \o ".com\napp." \o slug \o ".com",
                      "text", run_id),
                  "success", "Found assets")
         [] job_name = "analysis" ->
              LET S2 == Log(Log(S, "info", "Running Nuclei vulnerability templates"),
                            "info", "Checking for common misconfigurations")
              IN IF scan.vulnerabilitiesFound > 0
                 THEN Log(S2, "warning", "Potential vulnerabilities detected")
                 ELSE S2
         [] job_name = "exploitation" ->
              IF scan.vulnerabilitiesFound > 0
              THEN LET S1 == Log(S, "info", "Generating safe proof-of-concept exploits")
                       S2 == [S1 EXCEPT !.FINDINGS = Append(@, new_finding(S1, T, scan_id))]
                       S3 == add_artifact(S2, a, "xss_poc.html",
                                 "<script>alert('XSS found in search parameter')</script>",
                                 "text", run_id)
                       S4 == add_artifact(S3, a, "http_request.txt",
                                 "GET /search?q=<script>alert(1)</script> HTTP/1.1\nHost: "
                                    \o slug \o ".com\n",
                                 "http_request", run_id)
                   IN Log(S4, "success", "Generated finding")
              ELSE S
         [] job_name = "reporting" ->
              LET S1 == Log(S, "info", "Compiling vulnerability report")
              IN IF scan.vulnerabilitiesFound > 0
                 THEN Log(add_artifact(S1, a, "vulnerability_report.md",
                                       "# Vulnerability Scan Report", "text", run_id),
                          "success", "Vulnerability report generated")
                 ELSE Log(S1, "info", "No vulnerabilities found - scan complete")
         [] OTHER -> S

\* whether the stage stops at the await of line 332 before its run is completed
AwaitsNewFinding(S, T, scan_id) ==
    /\ Stages[T.stage].job_name = "exploitation"
    /\ S.SCAN_STATUSES[scan_id].vulnerabilitiesFound > 0

\* variant: the assignment of main.py:376 is missing
except_handler_quiet(S, T, scan_id) ==
    LET S1 == update_activity_status(S, T.activity_id, "failed", "failure")
        S2 == log_activity(S1, T.activity_id, "error", "Scan failed", NoRun)
    IN [S |-> S2, T |-> [T EXCEPT !.pc = "final_scan"]]

\* variant: after a fault only the activity snapshot is published
except_handler_skip(S, T, scan_id) ==
    LET S1 == update_activity_status(S, T.activity_id, "failed", "failure")
        S2 == log_activity(S1, T.activity_id, "error", "Scan failed", NoRun)
    IN [S |-> [S2 EXCEPT !.SCAN_STATUSES[scan_id].status = "failed"],
        T |-> [T EXCEPT !.pc = "final_activity"]]

\* variant: the handler also resets the progress of the scan
except_handler_reset(S, T, scan_id) ==
    LET S1 == update_activity_status(S, T.activity_id, "failed", "failure")
        S2 == log_activity(S1, T.activity_id, "error", "Scan failed", NoRun)
    IN [S |-> [S2 EXCEPT !.SCAN_STATUSES[scan_id].status = "failed",
                         !.SCAN_STATUSES[scan_id].progress = 0],
        T |-> [T EXCEPT !.pc = "final_scan"]]

\* main.py:373-376
except_handler(S, T, scan_id) ==
    LET S1 == update_activity_status(S, T.activity_id, "failed", "failure")
        S2 == log_activity(S1, T.activity_id, "error", "Scan failed", NoRun)
    IN [S |-> [S2 EXCEPT !.SCAN_STATUSES[scan_id].status = "failed"],
        T |-> [T EXCEPT !.pc = "final_scan"]]

-----------------------------------------------------------------------------
(* Steps of a simulate_scan task: one action per stretch between two awaits *)

\* what a boundary call answers: the handler, the identifier it was given, the HTTP
\* status (main.py:107, 167, 570, 573) and, for a listing, the body
Response(op, arg, code) == [op |-> op, arg |-> arg, code |-> code, body |-> <<>>]

NoResponse == Response("none", "", 0)

NewTask == [pc |-> "start", stage |-> 0, activity_id |-> NoId, run_id |-> NoRun]

Step(scan_id, R) ==
    /\ Commit(R.S)
    /\ task' = [task EXCEPT ![scan_id] = R.T]
    /\ response' = NoResponse
    /\ UNCHANGED now

\* the task is first scheduled: main.py:245-289
SimStart(scan_id) ==
    /\ task[scan_id].pc = "start"
    /\ Step(scan_id, sim_enter(Store, task[scan_id], scan_id))

\* the delay of line 289 is over: main.py:291-366, then the next pass of the loop
SimStage(scan_id) ==
    /\ task[scan_id].pc = "delay"
    /\ LET T == task[scan_id]
           S1 == stage_effects(Store, T, scan_id)
       IN IF AwaitsNewFinding(Store, T, scan_id)
          THEN Step(scan_id, [S |-> S1, T |-> [T EXCEPT !.pc = "emit_finding"]])
          ELSE Step(scan_id, next_iteration(complete_run(S1, T.activity_id, T.run_id),
                                            T, scan_id))

\* sio.emit('new_finding', ...) of line 332 returns: main.py:356-366, then the next pass
SimFindingEmitted(scan_id) ==
    /\ task[scan_id].pc = "emit_finding"
    /\ LET T == task[scan_id]
           f == CHOOSE i \in 1..Len(FINDINGS) : FINDINGS[i].activityId = T.activity_id
           S1 == emit(Store, "new_finding", 332, FINDINGS[f].id, FINDINGS[f].status)
       IN Step(scan_id, next_iteration(complete_run(S1, T.activity_id, T.run_id),
                                       T, scan_id))

\* an await inside the try block raises (sio.emit of line 288 or 332): main.py:373-376
SimFault(scan_id) ==
    /\ task[scan_id].pc \in {"delay", "emit_finding"}
    /\ Step(scan_id, except_handler(Store, task[scan_id], scan_id))

\* main.py:378
SimFinalScan(scan_id) ==
    /\ task[scan_id].pc = "final_scan"
    /\ Step(scan_id, [S |-> emit(Store, "scan_update", 378, ToString(scan_id),
                                 SCAN_STATUSES[scan_id].status),
                      T |-> [task[scan_id] EXCEPT !.pc = "final_activity"]])

\* main.py:379
SimFinalActivity(scan_id) ==
    /\ task[scan_id].pc = "final_activity"
    /\ LET a == task[scan_id].activity_id
       IN Step(scan_id, [S |-> emit(Store, "activity_updated", 379, ToString(a),
                                    ACTIVITIES[ActivityIndex(ACTIVITIES, a)].status),
                         T |-> [task[scan_id] EXCEPT !.pc = "done"]])

-----------------------------------------------------------------------------
(* Boundary handlers *)

\* variant: the catalog is not consulted
queue_scan_unvalidated(program_id) ==
    /\ UNCHANGED now
    /\ LET scan_id == Len(SCAN_STATUSES) + 1
           scan_status == [id |-> scan_id, programId |-> program_id,
                           status |-> "queued", progress |-> 0, assetsFound |-> 0,
                           vulnerabilitiesFound |-> 0, activityId |-> NoId]
           S1 == [Store EXCEPT !.SCAN_STATUSES = Append(@, scan_status)]
       IN /\ Commit(emit(S1, "scan_update", 123, ToString(scan_id), "queued"))
          /\ task' = Append(task, NewTask)
          /\ response' = Response("queue_scan", program_id, 200)

\* POST /queue, main.py:102-128
queue_scan(program_id) ==
    /\ UNCHANGED now
    /\ IF \A i \in 1..Len(PROGRAMS) : PROGRAMS[i].id # program_id
       THEN /\ response' = Response("queue_scan", program_id, 404)
            /\ Commit(Store)
            /\ UNCHANGED task
       ELSE LET scan_id == Len(SCAN_STATUSES) + 1
                scan_status == [id |-> scan_id, programId |-> program_id,
                                status |-> "queued", progress |-> 0, assetsFound |-> 0,
                                vulnerabilitiesFound |-> 0, activityId |-> NoId]
                S1 == [Store EXCEPT !.SCAN_STATUSES = Append(@, scan_status)]
            IN /\ Commit(emit(S1, "scan_update", 123, ToString(scan_id), "queued"))
               /\ task' = Append(task, NewTask)
               /\ response' = Response("queue_scan", program_id, 200)

\* variant: the assignment of main.py:168 is missing
stop_scan_unset(scan_id) ==
    /\ UNCHANGED <<task, now>>
    /\ IF scan_id \notin DOMAIN SCAN_STATUSES
       THEN /\ response' = Response("stop_scan", ToString(scan_id), 404)
            /\ Commit(Store)
       ELSE /\ Commit(emit(Store, "scan_update", 170, ToString(scan_id),
                           SCAN_STATUSES[scan_id].status))
            /\ response' = Response("stop_scan", ToString(scan_id), 200)

\* DELETE /scans/{scan_id}, main.py:163-172
stop_scan(scan_id) ==
    /\ UNCHANGED <<task, now>>
    /\ IF scan_id \notin DOMAIN SCAN_STATUSES
       THEN /\ response' = Response("stop_scan", ToString(scan_id), 404)
            /\ Commit(Store)
       ELSE /\ Commit(emit([Store EXCEPT !.SCAN_STATUSES[scan_id].status = "stopped"],
                           "scan_update", 170, ToString(scan_id), "stopped"))
            /\ response' = Response("stop_scan", ToString(scan_id), 200)

\* variant: the state check of main.py:572-573 is missing
cancel_activity_anystate(activity_id) ==
    /\ UNCHANGED <<task, now>>
    /\ LET i == ActivityIndex(ACTIVITIES, activity_id)
       IN IF i = 0
          THEN /\ response' = Response("cancel_activity", ToString(activity_id), 404)
               /\ Commit(Store)
          ELSE LET S1 == update_activity_status(Store, activity_id, "cancelled", "cancelled")
                   S2 == log_activity(S1, activity_id, "info", "Activity cancelled by user",
                                      NoRun)
               IN /\ Commit(emit(S2, "activity_updated", 578, ToString(activity_id),
                                 S2.ACTIVITIES[i].status))
                  /\ response' = Response("cancel_activity", ToString(activity_id), 200)

\* variant: the cancellation is logged before the Activity is looked up
cancel_activity_logfirst(activity_id) ==
    /\ UNCHANGED <<task, now>>
    /\ LET i == ActivityIndex(ACTIVITIES, activity_id)
           S0 == log_activity(Store, activity_id, "info", "Activity cancelled by user", NoRun)
       IN IF i = 0
          THEN /\ response' = Response("cancel_activity", ToString(activity_id), 404)
               /\ Commit(S0)
          ELSE IF ACTIVITIES[i].status \notin {"queued", "in_progress"}
          THEN /\ response' = Response("cancel_activity", ToString(activity_id), 400)
               /\ Commit(S0)
          ELSE LET S1 == update_activity_status(S0, activity_id, "cancelled", "cancelled")
               IN /\ Commit(emit(S1, "activity_updated", 578, ToString(activity_id),
                                 S1.ACTIVITIES[i].status))
                  /\ response' = Response("cancel_activity", ToString(activity_id), 200)

\* DELETE /activities/{activity_id}, main.py:565-580
cancel_activity(activity_id) ==
    /\ UNCHANGED <<task, now>>
    /\ LET i == ActivityIndex(ACTIVITIES, activity_id)
       IN IF i = 0
          THEN /\ response' = Response("cancel_activity", ToString(activity_id), 404)
               /\ Commit(Store)
          ELSE IF ACTIVITIES[i].status \notin {"queued", "in_progress"}
          THEN /\ response' = Response("cancel_activity", ToString(activity_id), 400)
               /\ Commit(Store)
          ELSE LET S1 == update_activity_status(Store, activity_id, "cancelled", "cancelled")
                   S2 == log_activity(S1, activity_id, "info", "Activity cancelled by user",
                                      NoRun)
               IN /\ Commit(emit(S2, "activity_updated", 578, ToString(activity_id),
                                 S2.ACTIVITIES[i].status))
                  /\ response' = Response("cancel_activity", ToString(activity_id), 200)

-----------------------------------------------------------------------------
(* POST /findings/{finding_id}/approve, main.py:136-149 *)

\* next((f for f in FINDINGS if f["id"] == finding_id), None): index of the first
\* match, 0 if none
FindingIndex(findings, finding_id) ==
    IF \E i \in 1..Len(findings) : findings[i].id = finding_id
    THEN CHOOSE i \in 1..Len(findings) :
             /\ findings[i].id = finding_id
             /\ \A j \in 1..(i - 1) : findings[j].id # finding_id
    ELSE 0

\* variant: a finding that is already approved is put back to needs_human
approve_finding_toggle(finding_id) ==
    /\ UNCHANGED <<task, now>>
    /\ LET i == FindingIndex(FINDINGS, finding_id)
       IN IF i = 0
          THEN /\ response' = Response("approve_finding", finding_id, 404)
               /\ Commit(Store)
          ELSE LET status == IF FINDINGS[i].status = "approved"
                             THEN "needs_human" ELSE "approved"
                   S1 == [Store EXCEPT !.FINDINGS[i].status = status,
                                       !.FINDINGS[i].approvedAt = isoformat(now)]
               IN /\ Commit(emit(S1, "finding_approved", 147, finding_id, status))
                  /\ response' = Response("approve_finding", finding_id, 200)

\* variant: every Finding of the same program is approved with the one named
approve_finding_program(finding_id) ==
    /\ UNCHANGED <<task, now>>
    /\ LET i == FindingIndex(FINDINGS, finding_id)
       IN IF i = 0
          THEN /\ response' = Response("approve_finding", finding_id, 404)
               /\ Commit(Store)
          ELSE LET Approved(f) == [f EXCEPT !.status = "approved",
                                           !.approvedAt = isoformat(now)]
                   S1 == [Store EXCEPT !.FINDINGS =
                             [j \in 1..Len(@) |->
                                 IF @[j].programId = @[i].programId
                                 THEN Approved(@[j]) ELSE @[j]]]
               IN /\ Commit(emit(S1, "finding_approved", 147, finding_id,
                                 S1.FINDINGS[i].status))
                  /\ response' = Response("approve_finding", finding_id, 200)

\* variant: an unknown identifier is answered with 404 after the event has gone out
approve_finding_announced(finding_id) ==
    /\ UNCHANGED <<task, now>>
    /\ LET i == FindingIndex(FINDINGS, finding_id)
       IN IF i = 0
          THEN /\ response' = Response("approve_finding", finding_id, 404)
               /\ Commit(emit(Store, "finding_approved", 147, finding_id, "approved"))
          ELSE LET S1 == [Store EXCEPT !.FINDINGS[i].status = "approved",
                                       !.FINDINGS[i].approvedAt = isoformat(now)]
               IN /\ Commit(emit(S1, "finding_approved", 147, finding_id, "approved"))
                  /\ response' = Response("approve_finding", finding_id, 200)

approve_finding(finding_id) ==
    /\ UNCHANGED <<task, now>>
    /\ LET i == FindingIndex(FINDINGS, finding_id)
       IN IF i = 0
          THEN /\ response' = Response("approve_finding", finding_id, 404)
               /\ Commit(Store)
          ELSE LET S1 == [Store EXCEPT !.FINDINGS[i].status = "approved",
                                       !.FINDINGS[i].approvedAt = isoformat(now)]
               IN /\ Commit(emit(S1, "finding_approved", 147, finding_id,
                                 S1.FINDINGS[i].status))
                  /\ response' = Response("approve_finding", finding_id, 200)

-----------------------------------------------------------------------------
(* GET /mcp/status, main.py:197-210 *)

RECURSIVE SumPayout(_)
SumPayout(findings) ==
    IF findings = <<>> THEN 0
    ELSE findings[1].payoutEst + SumPayout(Tail(findings))

\* main.py:200
ActiveScans(S) ==
    Cardinality({scan_id \in DOMAIN S.SCAN_STATUSES :
                    S.SCAN_STATUSES[scan_id].status \notin {"completed", "stopped"}})

\* main.py:201
PendingReviews(S) ==
    LET NeedsHuman(f) == f.status = "needs_human"
    IN Len(SelectSeq(S.FINDINGS, NeedsHuman))

\* the status list of main.py:219
SummaryStatuses == {"queued", "needs_human", "approved", "submitted", "paid"}

\* len([f for f in FINDINGS if f[field] == value]), main.py:218, 222
CountStatus(S, status) ==
    Cardinality({i \in 1..Len(S.FINDINGS) : S.FINDINGS[i].status = status})

CountType(S, vuln_type) ==
    Cardinality({i \in 1..Len(S.FINDINGS) : S.FINDINGS[i].type = vuln_type})

\* set(f["type"] for f in FINDINGS), main.py:223
FindingTypes(S) == {S.FINDINGS[i].type : i \in 1..Len(S.FINDINGS)}

\* variant: byStatus is keyed by the statuses that occur, as byType is by the types
mcp_findings_summary_open ==
    /\ Commit(Store)
    /\ response' = [op |-> "mcp_findings_summary", arg |-> "", code |-> 200,
                    body |-> [total |-> Len(FINDINGS),
                              byStatus |-> [status \in {FINDINGS[i].status :
                                                           i \in 1..Len(FINDINGS)} |->
                                               CountStatus(Store, status)],
                              byType |-> [vuln_type \in FindingTypes(Store) |->
                                             CountType(Store, vuln_type)],
                              totalValue |-> SumPayout(FINDINGS)]]
    /\ UNCHANGED <<task, now>>

\* GET /mcp/findings/summary, main.py:212-226
mcp_findings_summary ==
    /\ Commit(Store)
    /\ response' = [op |-> "mcp_findings_summary", arg |-> "", code |-> 200,
                    body |-> [total |-> Len(FINDINGS),
                              byStatus |-> [status \in SummaryStatuses |->
                                               CountStatus(Store, status)],
                              byType |-> [vuln_type \in FindingTypes(Store) |->
                                             CountType(Store, vuln_type)],
                              totalValue |-> SumPayout(FINDINGS)]]
    /\ UNCHANGED <<task, now>>

\* main.py:202
TotalRevenue(S) ==
    LET Earning(f) == f.status \in {"approved", "submitted"}
    IN SumPayout(SelectSeq(S.FINDINGS, Earning))

mcp_status ==
    /\ Commit(Store)
    /\ response' = [op |-> "mcp_status", arg |-> "", code |-> 200,
                    body |-> [activeScans |-> ActiveScans(Store),
                              pendingReviews |-> PendingReviews(Store),
                              totalRevenue |-> TotalRevenue(Store),
                              systemHealth |-> "operational",
                              lastUpdate |-> isoformat(now)]]
    /\ UNCHANGED <<task, now>>

-----------------------------------------------------------------------------
(* GET /activities, main.py:475-509 *)

\* "if x:" of an Optional[str] query parameter
Truthy(x) == x # None /\ x # ""

\* main.py:487-492
filter_activities(acts, activity_type, status, program_id) ==
    LET ByType(a) == a.type = activity_type
        ByStatus(a) == a.status = status
        ByProgram(a) == a.programId = program_id
        f1 == IF Truthy(activity_type) THEN SelectSeq(acts, ByType) ELSE acts
        f2 == IF Truthy(status) THEN SelectSeq(f1, ByStatus) ELSE f1
    IN IF Truthy(program_id) THEN SelectSeq(f2, ByProgram) ELSE f2

\* variant: the sort of main.py:495 without reverse=True
RECURSIVE sort_oldest_first(_)
sort_oldest_first(acts) ==
    IF acts = <<>> THEN <<>>
    ELSE LET m == CHOOSE i \in 1..Len(acts) :
                    /\ \A j \in 1..Len(acts) : ~IsoLess(acts[j].startTime, acts[i].startTime)
                    /\ \A j \in 1..(i - 1) : IsoLess(acts[i].startTime, acts[j].startTime)
             rest == [j \in 1..(Len(acts) - 1) |-> IF j < m THEN acts[j] ELSE acts[j + 1]]
         IN <<acts[m]>> \o sort_oldest_first(rest)

\* list.sort(key=startTime, reverse=True), main.py:495: descending, equal keys keep
\* their order
RECURSIVE sort_recent_first(_)
sort_recent_first(acts) ==
    IF acts = <<>> THEN <<>>
    ELSE LET m == CHOOSE i \in 1..Len(acts) :
                    /\ \A j \in 1..Len(acts) : ~IsoLess(acts[i].startTime, acts[j].startTime)
                    /\ \A j \in 1..(i - 1) : IsoLess(acts[j].startTime, acts[i].startTime)
             rest == [j \in 1..(Len(acts) - 1) |-> IF j < m THEN acts[j] ELSE acts[j + 1]]
         IN <<acts[m]>> \o sort_recent_first(rest)

\* seq[start:stop] of a Python list: a negative index counts from the end, every index
\* is clamped to the list
PySlice(seq, start, stop) ==
    LET n == Len(seq)
        Clamp(i) == IF i < 0 THEN Max(i + n, 0) ELSE Min(i, n)
        lo == Clamp(start)
        hi == Clamp(stop)
    IN IF hi <= lo THEN <<>> ELSE SubSeq(seq, lo + 1, hi)

\* variant: a page that ends exactly at the last match still reports more
hasMoreInclusive(offset, limit, total) == offset + limit <= total

\* main.py:508
hasMore(offset, limit, total) == offset + limit < total

\* variant: the count kept in the record is reported instead of the length of the list
RunCountStored(S, activity_id) ==
    S.ACTIVITIES[ActivityIndex(S.ACTIVITIES, activity_id)].runCount

\* len(ACTIVITY_RUNS.get(activity["id"], [])), main.py:503
RunCount(S, activity_id) ==
    IF activity_id \in DOMAIN S.ACTIVITY_RUNS THEN Len(S.ACTIVITY_RUNS[activity_id]) ELSE 0

get_activities(activity_type, status, program_id, limit, offset) ==
    LET filtered_activities ==
            sort_recent_first(filter_activities(ACTIVITIES, activity_type, status, program_id))
        total == Len(filtered_activities)
        paginated == PySlice(filtered_activities, offset, offset + limit)
        listed == {paginated[i].id : i \in 1..Len(paginated)}
        Counted(a) == [a EXCEPT !.runCount = RunCount(Store, a.id)]
        \* the copy of main.py:484 is shallow: the run counts land in the registry
        S1 == [Store EXCEPT !.ACTIVITIES =
                  [i \in 1..Len(ACTIVITIES) |->
                      IF ACTIVITIES[i].id \in listed THEN Counted(ACTIVITIES[i])
                      ELSE ACTIVITIES[i]]]
    IN /\ Commit(S1)
       /\ response' = [op |-> "get_activities",
                       arg |-> <<activity_type, status, program_id, limit, offset>>,
                       code |-> 200,
                       body |-> [activities |-> [i \in 1..Len(paginated) |->
                                                    Counted(paginated[i])],
                                 total |-> total,
                                 hasMore |-> hasMore(offset, limit, total)]]
       /\ UNCHANGED <<task, now>>

\* main.py:542-543: "if run_id:" and the list comprehension; an absent run_id is NoRun
logs_of_run(logs, run_id) ==
    LET OfRun(log) == log.runId = run_id
    IN IF run_id # NoRun THEN SelectSeq(logs, OfRun) ELSE logs

\* GET /activities/{activity_id}/logs, main.py:534-545
get_activity_logs(activity_id, run_id) ==
    /\ Commit(Store)
    /\ UNCHANGED <<task, now>>
    /\ IF activity_id \notin DOMAIN ACTIVITY_LOGS
       THEN response' = Response("get_activity_logs", <<activity_id, run_id>>, 404)
       ELSE response' = [op |-> "get_activity_logs", arg |-> <<activity_id, run_id>>,
                         code |-> 200,
                         body |-> [logs |-> logs_of_run(ACTIVITY_LOGS[activity_id], run_id)]]

\* main.py:554: the artifacts of the list that are in the index, in list order
resolved_artifacts(S, artifact_ids) ==
    LET Stored(aid) == aid \in DOMAIN S.ARTIFACTS
        kept == SelectSeq(artifact_ids, Stored)
    IN [j \in 1..Len(kept) |-> S.ARTIFACTS[kept[j]]]

\* GET /activities/{activity_id}/artifacts, main.py:547-555
get_activity_artifacts(activity_id) ==
    /\ Commit(Store)
    /\ UNCHANGED <<task, now>>
    /\ LET i == ActivityIndex(ACTIVITIES, activity_id)
       IN IF i = 0
          THEN response' = Response("get_activity_artifacts", activity_id, 404)
          ELSE response' = [op |-> "get_activity_artifacts", arg |-> activity_id,
                            code |-> 200,
                            body |-> [artifacts |->
                                         resolved_artifacts(Store, ACTIVITIES[i].artifacts)]]

\* GET /activities/{activity_id}, main.py:511-532: the Activity record as stored, with
\* its runs, its logs and the artifacts of its list
get_activity_details(activity_id) ==
    /\ Commit(Store)
    /\ UNCHANGED <<task, now>>
    /\ LET i == ActivityIndex(ACTIVITIES, activity_id)
       IN IF i = 0
          THEN response' = Response("get_activity_details", activity_id, 404)
          ELSE response' =
                  [op |-> "get_activity_details", arg |-> activity_id, code |-> 200,
                   body |-> [activity |-> ACTIVITIES[i],
                             runs |-> IF activity_id \in DOMAIN ACTIVITY_RUNS
                                      THEN ACTIVITY_RUNS[activity_id] ELSE <<>>,
                             logs |-> IF activity_id \in DOMAIN ACTIVITY_LOGS
                                      THEN ACTIVITY_LOGS[activity_id] ELSE <<>>,
                             artifacts |->
                                 resolved_artifacts(Store, ACTIVITIES[i].artifacts)]]

-----------------------------------------------------------------------------
(* The tracking functions called directly, as the tests of                 *)
(* tests/test_activity_tracking.py call them                               *)

\* create_activity(activity_type, title, program_id), triggered_by left at its default
call_create_activity(activity_type, program_id) ==
    /\ Commit(create_activity(Store, activity_type, "Test Scan", program_id, "system"))
    /\ response' = NoResponse
    /\ UNCHANGED <<task, now>>

\* update_activity_status(activity_id, status, conclusion)
call_update_activity_status(activity_id, status, conclusion) ==
    /\ Commit(update_activity_status(Store, activity_id, status, conclusion))
    /\ response' = NoResponse
    /\ UNCHANGED <<task, now>>

\* create_activity_run(activity_id, job_name, step_name)
call_create_activity_run(activity_id, job_name, step_name) ==
    /\ Commit(create_activity_run(Store, activity_id, job_name, step_name))
    /\ response' = NoResponse
    /\ UNCHANGED <<task, now>>

\* log_activity(activity_id, level, message, run_id)
call_log_activity(activity_id, level, message, run_id) ==
    /\ Commit(log_activity(Store, activity_id, level, message, run_id))
    /\ response' = NoResponse
    /\ UNCHANGED <<task, now>>

\* add_artifact(activity_id, name, content, artifact_type, run_id)
call_add_artifact(activity_id, name, content, artifact_type, run_id) ==
    /\ Commit(add_artifact(Store, activity_id, name, content, artifact_type, run_id))
    /\ response' = NoResponse
    /\ UNCHANGED <<task, now>>

\* the clock advances
Tick ==
    /\ now < MaxTime
    /\ now' = now + 1
    /\ response' = NoResponse
    /\ Commit(Store)
    /\ UNCHANGED task

\* the clock advances while durations are measured
Elapse ==
    /\ now < MaxClock
    /\ now' = now + 1
    /\ response' = NoResponse
    /\ Commit(Store)
    /\ UNCHANGED task

-----------------------------------------------------------------------------
(* The system behind the boundary: requests, simulation tasks and the clock *)

ProgramInputs == {"github", "no-such-program"}
\* identifiers a request may name: each is unknown until the scan (the activity) with
\* that identifier has been created
ScanInputs == 1..MaxScans
ActivityInputs == 1..MaxScans

Init ==
    /\ SCAN_STATUSES = <<>>
    /\ ACTIVITIES = <<>>
    /\ ACTIVITY_RUNS = <<>>
    /\ ACTIVITY_LOGS = <<>>
    /\ ARTIFACTS = <<>>
    /\ FINDINGS = SeedFindings
    /\ emitted = <<>>
    /\ task = <<>>
    /\ now = 0
    /\ response = NoResponse

\* requests and simulation steps, every publish succeeding
CalmNext ==
    \/ \E program_id \in ProgramInputs :
          Len(SCAN_STATUSES) < MaxScans /\ queue_scan(program_id)
    \/ \E scan_id \in ScanInputs : stop_scan(scan_id)
    \/ \E activity_id \in ActivityInputs : cancel_activity(activity_id)
    \/ \E scan_id \in DOMAIN task : SimStart(scan_id)
    \/ \E scan_id \in DOMAIN task : SimStage(scan_id)
    \/ \E scan_id \in DOMAIN task : SimFindingEmitted(scan_id)
    \/ \E scan_id \in DOMAIN task : SimFinalScan(scan_id)
    \/ \E scan_id \in DOMAIN task : SimFinalActivity(scan_id)

CalmSpec == Init /\ [][CalmNext]_vars

\* the same, and a publish inside the try block may raise
Next ==
    \/ CalmNext
    \/ \E scan_id \in DOMAIN task : SimFault(scan_id)

Spec == Init /\ [][Next]_vars

\* the scheduler runs every task that is ready: a task whose await has returned takes
\* its next step (a fault is possible, never owed)
SimStep(scan_id) ==
    /\ scan_id \in DOMAIN task
    /\ \/ SimStart(scan_id)
       \/ SimStage(scan_id)
       \/ SimFindingEmitted(scan_id)
       \/ SimFinalScan(scan_id)
       \/ SimFinalActivity(scan_id)

FairSpec == Spec /\ \A scan_id \in 1..MaxScans : WF_vars(SimStep(scan_id))

-----------------------------------------------------------------------------
(* The ledger under direct calls: everything of Spec, and the tracking     *)
(* functions called with any status and with or without a conclusion       *)

StatusInputs == {"queued", "in_progress", "completed", "failed", "cancelled"}
ConclusionInputs == {None, "success"}
LedgerActivityInputs == 1..(MaxScans + MaxLedger)

\* cancellations so far, each one a log of main.py:576
CancelsLogged ==
    Cardinality({<<a, i>> \in UNION {{a} \X (1..Len(ACTIVITY_LOGS[a])) : a \in DOMAIN ACTIVITY_LOGS} :
                    ACTIVITY_LOGS[a][i].message = "Activity cancelled by user"})

LedgerNext ==
    \/ \E program_id \in ProgramInputs :
          Len(SCAN_STATUSES) < MaxScans /\ queue_scan(program_id)
    \/ \E scan_id \in 1..MaxScans : SimStep(scan_id)
    \/ \E scan_id \in DOMAIN task : SimFault(scan_id)
    \/ \E activity_id \in LedgerActivityInputs :
          CancelsLogged < MaxCancels /\ cancel_activity(activity_id)
    \/ Len(ACTIVITIES) < MaxLedger /\ call_create_activity("scan", None)
    \/ \E activity_id \in LedgerActivityInputs :
          \E status \in StatusInputs : \E conclusion \in ConclusionInputs :
              call_update_activity_status(activity_id, status, conclusion)

SpecLedger == Init /\ [][LedgerNext]_vars

-----------------------------------------------------------------------------
(* The listing: a registry filled by direct calls, cancellations, the       *)
(* clock, and GET /activities with any filter and any page                 *)

ActivityKinds == {<<"scan", "github">>, <<"manual", None>>}
\* activity_type, status, program_id of a listing
FilterInputs == {<<None, None, None>>, <<"scan", None, None>>, <<None, "cancelled", "github">>}
LimitInputs == -1..2
OffsetInputs == 0..(MaxActivities + 1)

ListNext ==
    \/ \E kind \in ActivityKinds :
          Len(ACTIVITIES) < MaxActivities /\ call_create_activity(kind[1], kind[2])
    \/ \E activity_id \in 1..MaxActivities : cancel_activity(activity_id)
    \/ Tick
    \/ \E filter \in FilterInputs : \E limit \in LimitInputs : \E offset \in OffsetInputs :
          get_activities(filter[1], filter[2], filter[3], limit, offset)

SpecList == Init /\ [][ListNext]_vars

-----------------------------------------------------------------------------
(* The listing beside a running simulation: activities gain Runs between   *)
(* one GET /activities and the next                                        *)

PageInputs == {<<1, 0>>, <<2, 0>>, <<1, 1>>}

RunsNext ==
    \/ \E program_id \in ProgramInputs :
          Len(SCAN_STATUSES) < MaxScans /\ queue_scan(program_id)
    \/ \E scan_id \in 1..MaxScans : SimStep(scan_id)
    \/ \E scan_id \in DOMAIN task : SimFault(scan_id)
    \/ \E kind \in ActivityKinds :
          Len(ACTIVITIES) < MaxLedger /\ call_create_activity(kind[1], kind[2])
    \/ \E page \in PageInputs : get_activities(None, None, None, page[1], page[2])

SpecRuns == Init /\ [][RunsNext]_vars

-----------------------------------------------------------------------------
(* The ledger against the clock: activities opened, closed, reopened and   *)
(* closed again at different times                                         *)

ClockNext ==
    \/ Len(ACTIVITIES) < MaxLedger /\ call_create_activity("scan", None)
    \/ \E activity_id \in 1..MaxLedger :
          \E status \in StatusInputs : \E conclusion \in ConclusionInputs :
              call_update_activity_status(activity_id, status, conclusion)
    \/ \E activity_id \in 1..MaxLedger :
          CancelsLogged < MaxCancels /\ cancel_activity(activity_id)
    \/ Elapse

SpecClock == Init /\ [][ClockNext]_vars

-----------------------------------------------------------------------------
(* Several scans simulated at the same time: their tasks interleave at the *)
(* awaits, with stop requests and approvals in between                     *)

ConcurrentFindingInputs == {FindingName(Len(SeedFindings) + k) : k \in 1..MaxConcurrent}

ConcurrentNext ==
    \/ Len(SCAN_STATUSES) < MaxConcurrent /\ queue_scan("github")
    \/ \E scan_id \in 1..MaxConcurrent : SimStep(scan_id)
    \/ \E scan_id \in 1..MaxConcurrent : stop_scan(scan_id)
    \/ \E finding_id \in ConcurrentFindingInputs : approve_finding(finding_id)

SpecConcurrent == Init /\ [][ConcurrentNext]_vars

-----------------------------------------------------------------------------
(* Logs and artifacts under direct calls: the tracking functions called    *)
(* for Activities that exist and for an identifier that no Activity has,   *)
(* and the logs read back                                                   *)

\* an identifier that create_activity has handed out to no Activity
UnknownId == NoId - 1

\* identifiers are uuid4 values: one that names no Activity never comes to name one
TrackedInputs == {ACTIVITIES[i].id : i \in 1..Len(ACTIVITIES)} \cup {UnknownId}

StoredRuns(activity_id) ==
    IF activity_id \in DOMAIN ACTIVITY_RUNS THEN ACTIVITY_RUNS[activity_id] ELSE <<>>

StoredLogs(activity_id) ==
    IF activity_id \in DOMAIN ACTIVITY_LOGS THEN ACTIVITY_LOGS[activity_id] ELSE <<>>

RunInputs(activity_id) ==
    {NoRun} \cup {StoredRuns(activity_id)[j].id : j \in 1..Len(StoredRuns(activity_id))}

ContentInputs == {"", "# Vulnerability Report\nFound XSS in search form"}

TrackingNext ==
    \/ Len(ACTIVITIES) < MaxTracked /\ call_create_activity("scan", None)
    \/ \E activity_id \in TrackedInputs :
          /\ Len(StoredRuns(activity_id)) < MaxRuns
          /\ call_create_activity_run(activity_id, "recon", "Discovery")
    \/ \E activity_id \in TrackedInputs : \E run_id \in RunInputs(activity_id) :
          /\ Len(StoredLogs(activity_id)) < MaxLogs
          /\ call_log_activity(activity_id, "info", "Found 10 subdomains", run_id)
    \/ \E activity_id \in TrackedInputs : \E content \in ContentInputs :
          /\ Cardinality(DOMAIN ARTIFACTS) < MaxArtifacts
          /\ call_add_artifact(activity_id, "vulnerability_report.md", content, "text", NoRun)
    \/ \E activity_id \in TrackedInputs :
          /\ CancelsLogged < MaxCancels
          /\ cancel_activity(activity_id)
    \/ \E activity_id \in TrackedInputs : \E run_id \in RunInputs(activity_id) :
          get_activity_logs(activity_id, run_id)

SpecTracking == Init /\ [][TrackingNext]_vars

-----------------------------------------------------------------------------
(* Every boundary operation that touches the activity registries or reads  *)
(* them, with the simulation and its faults                                *)

BoundaryFindingInputs == {"f2", FindingName(Len(SeedFindings) + 1), "invalid-id"}

BoundaryNext ==
    \/ \E program_id \in ProgramInputs :
          Len(SCAN_STATUSES) < MaxScans /\ queue_scan(program_id)
    \/ \E scan_id \in ScanInputs : stop_scan(scan_id)
    \/ \E activity_id \in ActivityInputs \cup {UnknownId} : cancel_activity(activity_id)
    \/ \E finding_id \in BoundaryFindingInputs : approve_finding(finding_id)
    \/ get_activities(None, None, None, 1, 0)
    \/ \E activity_id \in ActivityInputs \cup {UnknownId} :
          get_activity_logs(activity_id, NoRun)
    \/ mcp_status
    \/ \E scan_id \in 1..MaxScans : SimStep(scan_id)
    \/ \E scan_id \in DOMAIN task : SimFault(scan_id)

SpecBoundary == Init /\ [][BoundaryNext]_vars

-----------------------------------------------------------------------------
(* The artifacts of scans simulated at the same time, stopped or failing,  *)
(* and listed at any moment                                                *)

ArtifactsNext ==
    \/ Len(SCAN_STATUSES) < MaxConcurrent /\ queue_scan("github")
    \/ \E scan_id \in 1..MaxConcurrent : SimStep(scan_id)
    \/ \E scan_id \in DOMAIN task : SimFault(scan_id)
    \/ \E scan_id \in 1..MaxConcurrent : stop_scan(scan_id)
    \/ \E activity_id \in 1..MaxConcurrent : get_activity_artifacts(activity_id)

SpecArtifacts == Init /\ [][ArtifactsNext]_vars

-----------------------------------------------------------------------------
(* The detail of an Activity, asked for before and after it was listed     *)

DetailsNext ==
    \/ \E program_id \in ProgramInputs :
          Len(SCAN_STATUSES) < MaxScans /\ queue_scan(program_id)
    \/ \E scan_id \in 1..MaxScans : SimStep(scan_id)
    \/ \E scan_id \in ScanInputs : stop_scan(scan_id)
    \/ get_activities(None, None, None, 1, 0)
    \/ \E activity_id \in ActivityInputs : get_activity_details(activity_id)

SpecDetails == Init /\ [][DetailsNext]_vars

-----------------------------------------------------------------------------
(* The findings: the seeded ones and the one a simulation adds, approved   *)
(* at any moment, any number of times, while the clock advances            *)

\* two seeded findings (one needs_human, one queued), the finding of the first
\* simulation (unknown until it is added) and an identifier no finding has
FindingInputs == {"f2", "f3", FindingName(Len(SeedFindings) + 1), "invalid-id"}

FindingsNext ==
    \/ \E program_id \in ProgramInputs :
          Len(SCAN_STATUSES) < MaxScans /\ queue_scan(program_id)
    \/ \E scan_id \in 1..MaxScans : SimStep(scan_id)
    \/ \E finding_id \in FindingInputs : approve_finding(finding_id)
    \/ Tick

SpecFindings == Init /\ [][FindingsNext]_vars

-----------------------------------------------------------------------------
(* The status summary, asked for at any moment of scans that run, are      *)
(* stopped or fail, and of findings that are approved                      *)

SummaryNext ==
    \/ \E program_id \in ProgramInputs :
          Len(SCAN_STATUSES) < MaxScans /\ queue_scan(program_id)
    \/ \E scan_id \in 1..MaxScans : SimStep(scan_id)
    \/ \E scan_id \in DOMAIN task : SimFault(scan_id)
    \/ \E scan_id \in ScanInputs : stop_scan(scan_id)
    \/ \E finding_id \in FindingInputs : approve_finding(finding_id)
    \/ mcp_status

SpecSummary == Init /\ [][SummaryNext]_vars

-----------------------------------------------------------------------------
(* The findings summary, asked for while scans add findings and findings   *)
(* are approved                                                            *)

DigestNext ==
    \/ \E program_id \in ProgramInputs :
          Len(SCAN_STATUSES) < MaxScans /\ queue_scan(program_id)
    \/ \E scan_id \in 1..MaxScans : SimStep(scan_id)
    \/ \E scan_id \in DOMAIN task : SimFault(scan_id)
    \/ \E finding_id \in FindingInputs : approve_finding(finding_id)
    \/ mcp_findings_summary

SpecDigest == Init /\ [][DigestNext]_vars

-----------------------------------------------------------------------------
(* Vocabulary of the properties *)

ActivityOf(activity_id) == ACTIVITIES[ActivityIndex(ACTIVITIES, activity_id)]

Started(scan_id) == scan_id \in DOMAIN task /\ task[scan_id].activity_id # NoId

Finished(scan_id) == scan_id \in DOMAIN task /\ task[scan_id].pc = "done"

LoopLeft(scan_id) ==
    scan_id \in DOMAIN task /\ task[scan_id].pc \in {"final_scan", "final_activity", "done"}

RunsOf(scan_id) == ACTIVITY_RUNS[task[scan_id].activity_id]

LogsOf(scan_id) == ACTIVITY_LOGS[task[scan_id].activity_id]

JobNames(runs) == [i \in 1..Len(runs) |-> runs[i].jobName]

StageJobs(n) == [i \in 1..n |-> Stages[i].job_name]

FindingsOf(activity_id) == {i \in 1..Len(FINDINGS) : FINDINGS[i].activityId = activity_id}

CancelLogged(scan_id) ==
    \E i \in 1..Len(LogsOf(scan_id)) : LogsOf(scan_id)[i].message = "Activity cancelled by user"

FaultLogged(scan_id) ==
    \E i \in 1..Len(LogsOf(scan_id)) : LogsOf(scan_id)[i].level = "error"

\* no stopScan, no cancelActivity and no fault have touched the simulation: a stop
\* leaves the scan stopped (until a fault), a cancel and a fault each leave a log
Undisturbed(scan_id) ==
    /\ SCAN_STATUSES[scan_id].status # "stopped"
    /\ ~CancelLogged(scan_id)
    /\ ~FaultLogged(scan_id)

-----------------------------------------------------------------------------
\* C1: a simulation that has finished with no stopScan, no cancelActivity and no fault
\* has created exactly 5 Runs for its Activity, with job names recon, analysis,
\* exploitation, reporting, completion in that order; its Activity is completed with
\* conclusion success and its Scan is completed with progress 100.
C1_FullRun ==
    \A scan_id \in DOMAIN task :
        (Finished(scan_id) /\ Undisturbed(scan_id)) =>
            /\ JobNames(RunsOf(scan_id)) =
                   <<"recon", "analysis", "exploitation", "reporting", "completion">>
            /\ ActivityOf(task[scan_id].activity_id).status = "completed"
            /\ ActivityOf(task[scan_id].activity_id).conclusion = "success"
            /\ SCAN_STATUSES[scan_id].status = "completed"
            /\ SCAN_STATUSES[scan_id].progress = 100

C1_Witness ==
    \E scan_id \in DOMAIN task :
        Finished(scan_id) /\ Undisturbed(scan_id) /\ Len(RunsOf(scan_id)) = 5

\* the next step of the task of scan_id, if it raises no fault, arrives at the boundary
\* check (main.py:271) of stage k
AtBoundaryNext(scan_id, k) ==
    /\ scan_id \in DOMAIN task
    /\ k \in 1..Len(Stages)
    /\ \/ task[scan_id].pc = "start" /\ k = 1
       \/ /\ task[scan_id].pc = "delay"
          /\ ~AwaitsNewFinding(Store, task[scan_id], scan_id)
          /\ k = task[scan_id].stage + 1
       \/ task[scan_id].pc = "emit_finding" /\ k = task[scan_id].stage + 1

\* the loop of scan_id was left by the break of main.py:274, at the boundary of stage k
BrokeAt(scan_id, k) ==
    /\ LoopLeft(scan_id)
    /\ task[scan_id].stage = k
    /\ Len(RunsOf(scan_id)) = k - 1

\* nothing of stage k or of a later stage has been done for scan_id
NothingFrom(scan_id, k) ==
    LET a == task[scan_id].activity_id
        arts == ActivityOf(a).artifacts
    IN /\ JobNames(RunsOf(scan_id)) = StageJobs(k - 1)
       /\ \A i \in 1..Len(LogsOf(scan_id)) :
              LogsOf(scan_id)[i].runId = NoRun \/ LogsOf(scan_id)[i].runId[2] < k
       /\ \A i \in 1..Len(arts) : ARTIFACTS[arts[i]].runId[2] < k
       /\ (k <= 3 => FindingsOf(a) = {})
       /\ SCAN_STATUSES[scan_id].progress = (IF k = 1 THEN 0 ELSE Stages[k - 1].progress)

\* C2: for every stage k of 1..5, if the Scan is stopped when the simulation reaches
\* the boundary check of stage k, that step creates no Run and leaves the loop with the
\* Activity cancelled/cancelled; and from then on no Run, log, artifact or Finding of
\* stage k or of a later stage exists and the Activity stays cancelled/cancelled.
C2_StopBeforeBoundary ==
    /\ [][\A scan_id \in DOMAIN task : \A k \in 1..Len(Stages) :
            (/\ AtBoundaryNext(scan_id, k)
             /\ SCAN_STATUSES[scan_id].status = "stopped"
             /\ task'[scan_id] # task[scan_id]
             /\ ~SimFault(scan_id))
            => BrokeAt(scan_id, k)']_vars
    /\ [](\A scan_id \in DOMAIN task : \A k \in 1..Len(Stages) :
            BrokeAt(scan_id, k) =>
                /\ NothingFrom(scan_id, k)
                /\ ActivityOf(task[scan_id].activity_id).status = "cancelled"
                /\ ActivityOf(task[scan_id].activity_id).conclusion = "cancelled")

C2_Witness ==
    \E scan_id \in DOMAIN task :
        /\ Finished(scan_id)
        /\ BrokeAt(scan_id, 4)
        /\ SCAN_STATUSES[scan_id].status = "stopped"

\* C3: once a simulation task has finished, its Activity is in a terminal status
\* (completed, failed or cancelled), whenever stopScan was issued or not.
C3_FinishedIsTerminal ==
    \A scan_id \in DOMAIN task :
        Finished(scan_id) =>
            ActivityOf(task[scan_id].activity_id).status \in TerminalActivityStatuses

-----------------------------------------------------------------------------
\* C5: an Activity's status only moves forward along queued -> in_progress ->
\* {completed, failed, cancelled}, and once it is completed, failed or cancelled neither
\* its status nor its conclusion changes again.
StatusRank(status) ==
    IF status = "queued" THEN 0 ELSE IF status = "in_progress" THEN 1 ELSE 2

C5_TerminalIsFinal ==
    [][\A i \in 1..Len(ACTIVITIES) :
          /\ StatusRank(ACTIVITIES'[i].status) >= StatusRank(ACTIVITIES[i].status)
          /\ ACTIVITIES[i].status \in TerminalActivityStatuses =>
                /\ ACTIVITIES'[i].status = ACTIVITIES[i].status
                /\ ACTIVITIES'[i].conclusion = ACTIVITIES[i].conclusion]_vars

-----------------------------------------------------------------------------
\* C6: once a Scan's status is completed, stopped or failed it never changes again.
C6_ScanTerminalIsFinal ==
    [][\A scan_id \in 1..Len(SCAN_STATUSES) :
          SCAN_STATUSES[scan_id].status \in {"completed", "stopped", "failed"} =>
              SCAN_STATUSES'[scan_id].status = SCAN_STATUSES[scan_id].status]_vars

-----------------------------------------------------------------------------
\* C7: a Finding is appended only by the exploitation stage of a simulation, after its
\* delay and before its Run is completed, one at a time and with status needs_human;
\* and a simulation that has run all five stages without a fault has appended exactly
\* one Finding.
C7_OneFindingPerRun ==
    /\ [][Len(FINDINGS') # Len(FINDINGS) =>
            \E scan_id \in DOMAIN task :
                LET T == task[scan_id]
                    f == FINDINGS'[Len(FINDINGS')]
                IN /\ T.pc = "delay"
                   /\ Stages[T.stage].job_name = "exploitation"
                   /\ task'[scan_id].pc = "emit_finding"
                   /\ Len(FINDINGS') = Len(FINDINGS) + 1
                   /\ SubSeq(FINDINGS', 1, Len(FINDINGS)) = FINDINGS
                   /\ f.status = "needs_human"
                   /\ f.activityId = T.activity_id
                   /\ ACTIVITY_RUNS'[T.activity_id][T.stage].jobName = "exploitation"
                   /\ ACTIVITY_RUNS'[T.activity_id][T.stage].status = "queued"]_vars
    /\ [](\A scan_id \in DOMAIN task :
            (LoopLeft(scan_id) /\ Len(RunsOf(scan_id)) = Len(Stages) /\ ~FaultLogged(scan_id))
                => Cardinality(FindingsOf(task[scan_id].activity_id)) = 1)

C7_Witness ==
    \E scan_id \in DOMAIN task :
        /\ Finished(scan_id)
        /\ Len(RunsOf(scan_id)) = Len(Stages)
        /\ ~FaultLogged(scan_id)
        /\ Len(FINDINGS) = Len(SeedFindings) + 1
        /\ FINDINGS[Len(FINDINGS)].status = "needs_human"

-----------------------------------------------------------------------------
\* C8: cancelActivity answers NotFound (404) for an unknown identifier and InvalidState
\* (400) for an Activity that is not queued or in_progress, and then changes no
\* registry and publishes nothing; otherwise it succeeds (200), the Activity becomes
\* cancelled with conclusion cancelled, one info log is appended to its log sequence
\* and one activity_updated event is published.
C8_CancelActivity ==
    [][\A activity_id \in ActivityInputs :
          (response'.op = "cancel_activity" /\ response'.arg = ToString(activity_id)) =>
              LET i == ActivityIndex(ACTIVITIES, activity_id)
                  untouched == /\ ACTIVITIES' = ACTIVITIES
                               /\ ACTIVITY_LOGS' = ACTIVITY_LOGS
                               /\ ACTIVITY_RUNS' = ACTIVITY_RUNS
                               /\ emitted' = <<>>
              IN IF i = 0
                 THEN response'.code = 404 /\ untouched
                 ELSE IF ACTIVITIES[i].status \in {"queued", "in_progress"}
                 THEN /\ response'.code = 200
                      /\ ACTIVITIES'[i].status = "cancelled"
                      /\ ACTIVITIES'[i].conclusion = "cancelled"
                      /\ ACTIVITY_LOGS'[activity_id] =
                            Append(ACTIVITY_LOGS[activity_id],
                                   [level |-> "info", message |-> "Activity cancelled by user",
                                    runId |-> NoRun])
                      /\ emitted' = <<[name |-> "activity_updated", line |-> 578,
                                       id |-> ToString(activity_id), status |-> "cancelled"]>>
                 ELSE response'.code = 400 /\ untouched]_vars

C8_Witness ==
    /\ response.op = "cancel_activity"
    /\ response.code = 400
    /\ \E i \in 1..Len(ACTIVITIES) :
          /\ ToString(ACTIVITIES[i].id) = response.arg
          /\ ACTIVITIES[i].status = "cancelled"
          /\ \E j \in 1..Len(ACTIVITY_LOGS[ACTIVITIES[i].id]) :
                ACTIVITY_LOGS[ACTIVITIES[i].id][j].message = "Activity cancelled by user"

-----------------------------------------------------------------------------
\* stopScan has just answered for a Scan whose simulation has not yet completed its
\* first stage (it has not run yet, or it is in the delay of the first stage)
StoppedEarly(scan_id) ==
    /\ scan_id \in DOMAIN task
    /\ response.op = "stop_scan"
    /\ response.arg = ToString(scan_id)
    /\ response.code = 200
    /\ \/ task[scan_id].pc = "start"
       \/ task[scan_id].pc = "delay" /\ task[scan_id].stage = 1

StopSettled(scan_id) ==
    /\ Started(scan_id)
    /\ SCAN_STATUSES[scan_id].status = "stopped"
    /\ ActivityOf(task[scan_id].activity_id).status = "cancelled"
    /\ Len(RunsOf(scan_id)) < Len(Stages)

FaultSettled(scan_id) ==
    /\ Started(scan_id)
    /\ FaultLogged(scan_id)
    /\ SCAN_STATUSES[scan_id].status \in {"failed", "stopped"}
    /\ ActivityOf(task[scan_id].activity_id).status = "failed"
    /\ ActivityOf(task[scan_id].activity_id).conclusion = "failure"
    /\ Len(RunsOf(scan_id)) < Len(Stages)

\* C9 as stated: a stopScan issued after queuing and before the first stage has
\* completed leads to the Scan being stopped for good and the Activity cancelled with
\* fewer than five Runs.
C9_StopEventuallyCancels ==
    \A scan_id \in 1..MaxScans : StoppedEarly(scan_id) ~> [](StopSettled(scan_id))

\* C9, amended: a stopScan issued after queuing and before the first stage has
\* completed leads either to the Scan being stopped for good and the Activity cancelled
\* with fewer than five Runs, or, when a publish of the simulation raises before the
\* stop is observed, to the Activity failed with conclusion failure and fewer than five
\* Runs, the Scan being failed (stopped if stopScan is called again).
C9_StopEventuallyCancelsOrFails ==
    \A scan_id \in 1..MaxScans :
        StoppedEarly(scan_id) ~> []((StopSettled(scan_id) /\ ~FaultLogged(scan_id))
                                        \/ FaultSettled(scan_id))

C9_Witness ==
    \E scan_id \in DOMAIN task :
        /\ Finished(scan_id)
        /\ StopSettled(scan_id)
        /\ ~FaultLogged(scan_id)
        /\ Len(RunsOf(scan_id)) = 1
        /\ RunsOf(scan_id)[1].status = "completed"

-----------------------------------------------------------------------------
\* the three closing fields of an activity go with its status
EndedIffTerminal(activity) ==
    IF activity.status \in TerminalActivityStatuses
    THEN activity.endTime # NoTime /\ activity.duration # -1 /\ activity.conclusion # None
    ELSE activity.endTime = NoTime /\ activity.duration = -1 /\ activity.conclusion = None

\* C4 as stated: in every reachable state each Activity has endTime, duration and
\* conclusion all non-null if its status is completed, failed or cancelled, and all
\* null otherwise.
C4_EndedIffTerminal ==
    \A i \in 1..Len(ACTIVITIES) : EndedIffTerminal(ACTIVITIES[i])

\* an update that passes a conclusion with a terminal status, or none with a
\* non-terminal status to an activity that has not ended
Disciplined(activity, status, conclusion) ==
    \/ status \in TerminalActivityStatuses /\ conclusion # None
    \/ /\ status \notin TerminalActivityStatuses
       /\ conclusion = None
       /\ activity.status \notin TerminalActivityStatuses

UndisciplinedUpdate(i) ==
    \E status \in StatusInputs : \E conclusion \in ConclusionInputs :
        /\ ~Disciplined(ACTIVITIES[i], status, conclusion)
        /\ call_update_activity_status(ACTIVITIES[i].id, status, conclusion)

\* C4, amended: in every reachable state an Activity whose status is completed, failed
\* or cancelled has endTime and duration non-null, and endTime and duration are null
\* together; the full equivalence (endTime, duration and conclusion non-null iff the
\* status is terminal) holds for every new Activity and is kept by cancelActivity, by
\* every simulation step and by every updateActivityStatus that passes a conclusion
\* with a terminal status, or none with a non-terminal status to an Activity that has
\* not ended.
C4_TerminalHasEndTime ==
    /\ [](\A i \in 1..Len(ACTIVITIES) :
            /\ ACTIVITIES[i].status \in TerminalActivityStatuses =>
                  ACTIVITIES[i].endTime # NoTime /\ ACTIVITIES[i].duration # -1
            /\ ACTIVITIES[i].endTime = NoTime <=> ACTIVITIES[i].duration = -1)
    /\ [][/\ \A i \in 1..Len(ACTIVITIES) :
                (EndedIffTerminal(ACTIVITIES[i]) /\ ~UndisciplinedUpdate(i))
                    => EndedIffTerminal(ACTIVITIES'[i])
          /\ \A i \in (Len(ACTIVITIES) + 1)..Len(ACTIVITIES') :
                EndedIffTerminal(ACTIVITIES'[i])]_vars

C4_Witness ==
    \E i \in 1..Len(ACTIVITIES) :
        /\ ACTIVITIES[i].status = "completed"
        /\ ACTIVITIES[i].conclusion = None
        /\ ACTIVITIES[i].endTime # NoTime
        /\ ACTIVITIES[i].duration # -1

-----------------------------------------------------------------------------
\* the activities of the registry that pass the filter of a listing
Matching(activity_type, status, program_id) ==
    {i \in 1..Len(ACTIVITIES) :
        /\ activity_type # None => ACTIVITIES[i].type = activity_type
        /\ status # None => ACTIVITIES[i].status = status
        /\ program_id # None => ACTIVITIES[i].programId = program_id}

\* C10: for limit >= 0 and 0 <= offset <= total, listActivities returns total equal to
\* the number of Activities matching the filter, hasMore equal to
\* (offset + limit < total) and exactly min(limit, total - offset) items.
C10_ListActivities ==
    response.op = "get_activities" =>
        LET limit == response.arg[4]
            offset == response.arg[5]
            total == Cardinality(Matching(response.arg[1], response.arg[2], response.arg[3]))
        IN (limit >= 0 /\ 0 <= offset /\ offset <= total) =>
              /\ response.body.total = total
              /\ response.body.hasMore = (offset + limit < total)
              /\ Len(response.body.activities) = Min(limit, total - offset)

\* limit=1, offset=0 against 3 Activities: 1 item, total 3, hasMore true
C10_Witness ==
    /\ response.op = "get_activities"
    /\ response.arg = <<None, None, None, 1, 0>>
    /\ Len(ACTIVITIES) = 3
    /\ Len(response.body.activities) = 1
    /\ response.body.total = 3
    /\ response.body.hasMore = TRUE

-----------------------------------------------------------------------------
\* activity i of the registry comes before activity j in a listing: it started later,
\* or at the same time and was inserted earlier
ListedBefore(i, j) ==
    \/ IsoLess(ACTIVITIES[j].startTime, ACTIVITIES[i].startTime)
    \/ ACTIVITIES[i].startTime = ACTIVITIES[j].startTime /\ i < j

\* C11: listActivities returns only Activities that match every supplied filter by
\* exact equality, a page that spans the whole result returns all of them, and the
\* result is ordered by startTime descending with Activities of equal startTime in
\* insertion order: the k-th item of a page at offset is preceded by exactly
\* offset + k - 1 matching Activities.
C11_FilterAndOrder ==
    response.op = "get_activities" =>
        LET items == response.body.activities
            limit == response.arg[4]
            offset == response.arg[5]
            M == Matching(response.arg[1], response.arg[2], response.arg[3])
        IN /\ \A k \in 1..Len(items) :
                 ActivityIndex(ACTIVITIES, items[k].id) \in M
           /\ (offset = 0 /\ limit >= Cardinality(M)) =>
                 {ActivityIndex(ACTIVITIES, items[k].id) : k \in 1..Len(items)} = M
           /\ (limit >= 0 /\ offset >= 0) =>
                 \A k \in 1..Len(items) :
                     LET i == ActivityIndex(ACTIVITIES, items[k].id)
                     IN /\ items[k].startTime = ACTIVITIES[i].startTime
                        /\ Cardinality({j \in M : ListedBefore(j, i)}) = offset + k - 1

\* a listing by type of three Activities: the two that match, the later one first
C11_Witness ==
    /\ response.op = "get_activities"
    /\ response.arg = <<"scan", None, None, 2, 0>>
    /\ Len(ACTIVITIES) = 3
    /\ \E i \in 1..3 : ACTIVITIES[i].type # "scan"
    /\ Len(response.body.activities) = 2
    /\ IsoLess(response.body.activities[2].startTime, response.body.activities[1].startTime)
    /\ response.body.activities[2].id < response.body.activities[1].id

-----------------------------------------------------------------------------
\* C12: createActivity, in whatever state it is called, inserts an Activity with status
\* queued, an empty artifact list and run count 0 and gives its identifier empty Run
\* and Log sequences; and every item a listing returns carries a runCount equal to the
\* length of that Activity's Run list.
C12_CreatedEmptyAndCounted ==
    /\ \A kind \in ActivityKinds :
          LET S == create_activity(Store, kind[1], "Test Scan", kind[2], "system")
              a == S.ACTIVITIES[Len(S.ACTIVITIES)]
          IN /\ Len(S.ACTIVITIES) = Len(ACTIVITIES) + 1
             /\ SubSeq(S.ACTIVITIES, 1, Len(ACTIVITIES)) = ACTIVITIES
             /\ a.id \notin {ACTIVITIES[i].id : i \in 1..Len(ACTIVITIES)}
             /\ a.status = "queued" /\ a.artifacts = <<>> /\ a.runCount = 0
             /\ S.ACTIVITY_RUNS[a.id] = <<>>
             /\ S.ACTIVITY_LOGS[a.id] = <<>>
    /\ response.op = "get_activities" =>
          \A k \in 1..Len(response.body.activities) :
              LET item == response.body.activities[k]
              IN item.runCount = Len(ACTIVITY_RUNS[item.id])

\* a listing of two Activities: the one created by a direct call has no Run, the one
\* of a simulation in its third stage has three
C12_Witness ==
    /\ response.op = "get_activities"
    /\ Len(response.body.activities) = 2
    /\ \E k \in 1..2 : response.body.activities[k].runCount = 3
    /\ \E k \in 1..2 :
          /\ response.body.activities[k].runCount = 0
          /\ response.body.activities[k].status = "queued"
          /\ ACTIVITY_LOGS[response.body.activities[k].id] = <<>>

-----------------------------------------------------------------------------
\* C13: in every reachable state every Scan has assetsFound = min(progress // 10, 15)
\* and vulnerabilitiesFound = max(0, (progress - 30) // 20), integer division rounding
\* down.
C13_CountersFollowProgress ==
    \A scan_id \in 1..Len(SCAN_STATUSES) :
        LET scan == SCAN_STATUSES[scan_id]
            tenths == CHOOSE q \in -1..10 : 10 * q <= scan.progress /\ scan.progress < 10 * (q + 1)
            twentieths == CHOOSE q \in -2..4 :
                              20 * q <= scan.progress - 30 /\ scan.progress - 30 < 20 * (q + 1)
        IN /\ scan.assetsFound = (IF tenths <= 15 THEN tenths ELSE 15)
           /\ scan.vulnerabilitiesFound = (IF twentieths >= 0 THEN twentieths ELSE 0)

\* a Scan that failed in its third stage keeps the counters of that stage
C13_Witness ==
    \E scan_id \in 1..Len(SCAN_STATUSES) :
        /\ SCAN_STATUSES[scan_id].status = "failed"
        /\ SCAN_STATUSES[scan_id].progress = 70
        /\ SCAN_STATUSES[scan_id].assetsFound = 7
        /\ SCAN_STATUSES[scan_id].vulnerabilitiesFound = 2

-----------------------------------------------------------------------------
StageProgress == {0, 20, 40, 70, 90, 100}

StatusAt(progress) ==
    IF progress = 0 THEN "queued"
    ELSE IF progress = 20 THEN "scanning"
    ELSE IF progress = 40 THEN "analyzing"
    ELSE IF progress = 70 THEN "exploiting"
    ELSE IF progress = 90 THEN "reporting"
    ELSE "completed"

\* C14: a Scan's progress never decreases and only takes the values 0, 20, 40, 70, 90,
\* 100; each value is assigned together with its status (queued at creation, then
\* scanning, analyzing, exploiting, reporting, completed), by the step of the
\* simulation that begins the stage.
C14_ProgressMonotone ==
    /\ [](\A scan_id \in 1..Len(SCAN_STATUSES) :
            SCAN_STATUSES[scan_id].progress \in StageProgress)
    /\ [][/\ \A scan_id \in 1..Len(SCAN_STATUSES) :
                /\ SCAN_STATUSES'[scan_id].progress >= SCAN_STATUSES[scan_id].progress
                /\ SCAN_STATUSES'[scan_id].progress # SCAN_STATUSES[scan_id].progress =>
                      /\ SCAN_STATUSES'[scan_id].status =
                            StatusAt(SCAN_STATUSES'[scan_id].progress)
                      /\ task[scan_id].pc \in {"start", "delay", "emit_finding"}
                      /\ task'[scan_id].pc = "delay"
                      /\ Stages[task'[scan_id].stage].progress =
                            SCAN_STATUSES'[scan_id].progress
          /\ \A scan_id \in (Len(SCAN_STATUSES) + 1)..Len(SCAN_STATUSES') :
                /\ SCAN_STATUSES'[scan_id].progress = 0
                /\ SCAN_STATUSES'[scan_id].status = "queued"]_vars

C14_Witness ==
    \E scan_id \in DOMAIN task :
        /\ Finished(scan_id)
        /\ SCAN_STATUSES[scan_id].progress = 100
        /\ SCAN_STATUSES[scan_id].status = "completed"

-----------------------------------------------------------------------------
\* C15: approveFinding on an existing Finding answers 200, leaves it with status
\* approved and the approval timestamp of the call, leaves every other Finding as it
\* was and publishes one finding_approved event; an approved Finding stays approved,
\* whatever is called afterwards.
C15_ApproveFinding ==
    [][/\ \A finding_id \in FindingInputs :
             (/\ response'.op = "approve_finding"
              /\ response'.arg = finding_id
              /\ FindingIndex(FINDINGS, finding_id) # 0) =>
                 LET i == FindingIndex(FINDINGS, finding_id)
                 IN /\ response'.code = 200
                    /\ Len(FINDINGS') = Len(FINDINGS)
                    /\ FINDINGS'[i].status = "approved"
                    /\ FINDINGS'[i].approvedAt = isoformat(now)
                    /\ FINDINGS'[i].approvedAt # NoTime
                    /\ \A j \in 1..Len(FINDINGS) : j # i => FINDINGS'[j] = FINDINGS[j]
                    /\ emitted' = <<[name |-> "finding_approved", line |-> 147,
                                     id |-> finding_id, status |-> "approved"]>>
       /\ \A i \in 1..Len(FINDINGS) :
             FINDINGS[i].status = "approved" => FINDINGS'[i].status = "approved"]_vars

\* a Finding approved a second time, at a later time than the first
C15_Witness ==
    /\ response.op = "approve_finding"
    /\ response.code = 200
    /\ now > 0
    /\ \E i \in 1..Len(FINDINGS) :
          /\ FINDINGS[i].id = response.arg
          /\ FINDINGS[i].status = "approved"
          /\ FINDINGS[i].approvedAt = isoformat(now)
    /\ \E j \in 1..Len(FINDINGS) :
          /\ FINDINGS[j].status = "approved"
          /\ FINDINGS[j].approvedAt = isoformat(0)

-----------------------------------------------------------------------------
\* C17: approveFinding with an identifier that matches no Finding answers NotFound
\* (404), changes no Finding and publishes nothing.
C17_ApproveUnknown ==
    [][\A finding_id \in FindingInputs :
          (/\ response'.op = "approve_finding"
           /\ response'.arg = finding_id
           /\ \A i \in 1..Len(FINDINGS) : FINDINGS[i].id # finding_id) =>
              /\ response'.code = 404
              /\ FINDINGS' = FINDINGS
              /\ emitted' = <<>>]_vars

C17_Witness ==
    /\ response.op = "approve_finding"
    /\ response.arg = "invalid-id"
    /\ response.code = 404
    /\ emitted = <<>>
    /\ \E i \in 1..Len(FINDINGS) : FINDINGS[i].status = "approved"

-----------------------------------------------------------------------------
\* C16: queueScan with a programId that is not in the catalog answers NotFound (404)
\* and creates no Scan, starts no simulation, creates no Activity and publishes
\* nothing; with a known programId it answers 200, creates one Scan with status queued,
\* progress 0, assetsFound 0 and vulnerabilitiesFound 0 and starts exactly one
\* simulation, for that Scan.
C16_QueueScan ==
    [][\A program_id \in ProgramInputs :
          (response'.op = "queue_scan" /\ response'.arg = program_id) =>
              IF program_id \notin {PROGRAMS[i].id : i \in 1..Len(PROGRAMS)}
              THEN /\ response'.code = 404
                   /\ SCAN_STATUSES' = SCAN_STATUSES
                   /\ task' = task
                   /\ ACTIVITIES' = ACTIVITIES
                   /\ emitted' = <<>>
              ELSE LET scan_id == Len(SCAN_STATUSES) + 1
                   IN /\ response'.code = 200
                      /\ Len(SCAN_STATUSES') = scan_id
                      /\ SubSeq(SCAN_STATUSES', 1, Len(SCAN_STATUSES)) = SCAN_STATUSES
                      /\ SCAN_STATUSES'[scan_id].programId = program_id
                      /\ SCAN_STATUSES'[scan_id].status = "queued"
                      /\ SCAN_STATUSES'[scan_id].progress = 0
                      /\ SCAN_STATUSES'[scan_id].assetsFound = 0
                      /\ SCAN_STATUSES'[scan_id].vulnerabilitiesFound = 0
                      /\ DOMAIN task' = DOMAIN task \cup {scan_id}
                      /\ \A s \in DOMAIN task : task'[s] = task[s]
                      /\ task'[scan_id].pc = "start"
                      /\ ACTIVITIES' = ACTIVITIES]_vars

\* a refused request, after which a known program is still to be queued
C16_Witness ==
    /\ response.op = "queue_scan"
    /\ response.arg = "no-such-program"
    /\ response.code = 404
    /\ SCAN_STATUSES = <<>>
    /\ task = <<>>
    /\ ACTIVITIES = <<>>

-----------------------------------------------------------------------------
InLoop(scan_id) == task[scan_id].pc \in {"start", "delay", "emit_finding"}

FinalEvents(events) == {i \in 1..Len(events) : events[i].line \in {378, 379}}

\* C18: however a simulation leaves its stage loop (all stages done, stopped at a
\* boundary, fault inside the loop), it then publishes a scan_update with the Scan as
\* it is, next an activity_updated with the Activity as it is, and nothing more; these
\* two events are published by no other step, once each, and every simulation gets to
\* publish them.
C18_Finalizer ==
    /\ [][\A scan_id \in DOMAIN task :
            LET T == task[scan_id]
                moved == task'[scan_id] # T
            IN /\ (InLoop(scan_id) /\ moved) =>
                     /\ task'[scan_id].pc \in {"delay", "emit_finding", "final_scan"}
                     /\ FinalEvents(emitted') = {}
               /\ (T.pc = "final_scan" /\ moved) =>
                     /\ task'[scan_id].pc = "final_activity"
                     /\ emitted' = <<[name |-> "scan_update", line |-> 378,
                                      id |-> ToString(scan_id),
                                      status |-> SCAN_STATUSES[scan_id].status]>>
               /\ (T.pc = "final_activity" /\ moved) =>
                     /\ task'[scan_id].pc = "done"
                     /\ emitted' = <<[name |-> "activity_updated", line |-> 379,
                                      id |-> ToString(T.activity_id),
                                      status |-> ActivityOf(T.activity_id).status]>>
               /\ T.pc = "done" => ~moved
               /\ task' = task => FinalEvents(emitted') = {}]_vars
    /\ \A scan_id \in 1..MaxScans : (scan_id \in DOMAIN task) ~> Finished(scan_id)

\* the last event of a simulation that was stopped at a boundary
C18_Witness ==
    \E scan_id \in DOMAIN task :
        /\ Finished(scan_id)
        /\ \E k \in 1..Len(Stages) : BrokeAt(scan_id, k)
        /\ emitted = <<[name |-> "activity_updated", line |-> 379,
                        id |-> ToString(task[scan_id].activity_id),
                        status |-> "cancelled"]>>

-----------------------------------------------------------------------------
ErrorLogs(logs) == {i \in 1..Len(logs) : logs[i].level = "error"}

-----------------------------------------------------------------------------
\* C20: a Run is queued only while the stage it was created for is under way (or after
\* a fault hit that stage); the step that finishes a stage's side effects moves its Run
\* to completed with conclusion success and an endTime; so a simulation that has left
\* its loop without a fault, after all five stages or after a stop, has no queued Run.
C20_RunsCompleted ==
    /\ [](\A scan_id \in DOMAIN task :
            Started(scan_id) =>
                /\ \A j \in 1..Len(RunsOf(scan_id)) :
                      LET run == RunsOf(scan_id)[j]
                      IN /\ run.status \in {"queued", "completed"}
                         /\ run.status = "completed" =>
                               run.conclusion = "success" /\ run.endTime # None
                         /\ run.status = "queued" =>
                               /\ j = Len(RunsOf(scan_id))
                               /\ \/ InLoop(scan_id) /\ run.id = task[scan_id].run_id
                                  \/ FaultLogged(scan_id)
                /\ (LoopLeft(scan_id) /\ ~FaultLogged(scan_id)) =>
                      \A j \in 1..Len(RunsOf(scan_id)) :
                          RunsOf(scan_id)[j].status = "completed")
    /\ [][\A scan_id \in DOMAIN task :
            (/\ task[scan_id].pc \in {"delay", "emit_finding"}
             /\ task'[scan_id] # task[scan_id]
             /\ ~SimFault(scan_id)
             /\ task'[scan_id].pc # "emit_finding") =>
                LET run == ACTIVITY_RUNS'[task[scan_id].activity_id][task[scan_id].stage]
                IN /\ run.id = task[scan_id].run_id
                   /\ run.status = "completed"
                   /\ run.conclusion = "success"
                   /\ run.endTime # None]_vars

\* a simulation stopped during its second stage: two Runs, both completed
C20_Witness ==
    \E scan_id \in DOMAIN task :
        /\ Finished(scan_id)
        /\ ~FaultLogged(scan_id)
        /\ SCAN_STATUSES[scan_id].status = "stopped"
        /\ Len(RunsOf(scan_id)) = 2
        /\ \A j \in 1..2 : RunsOf(scan_id)[j].status = "completed"

-----------------------------------------------------------------------------
\* C21: every terminal Activity has a duration that is the whole-second difference
\* endTime - startTime, the fraction of a second dropped, and that is not negative;
\* also after the Activity has been given a terminal status more than once.
C21_DurationIsDifference ==
    \A i \in 1..Len(ACTIVITIES) :
        ACTIVITIES[i].status \in TerminalActivityStatuses =>
            LET a == ACTIVITIES[i]
                ticks == (a.endTime.sec * TicksPerSecond + a.endTime.frac)
                            - (a.startTime.sec * TicksPerSecond + a.startTime.frac)
            IN /\ a.endTime # NoTime
               /\ a.duration >= 0
               /\ a.duration * TicksPerSecond <= ticks
               /\ ticks < (a.duration + 1) * TicksPerSecond

\* an Activity cancelled and later completed, one and a half seconds after its start,
\* across two boundaries of a second
C21_Witness ==
    \E i \in 1..Len(ACTIVITIES) :
        /\ ACTIVITIES[i].status = "completed"
        /\ ACTIVITIES[i].conclusion = "cancelled"
        /\ ACTIVITIES[i].duration = 1
        /\ ACTIVITIES[i].endTime.sec - ACTIVITIES[i].startTime.sec = 2

-----------------------------------------------------------------------------
\* C22: a Finding's status changes only from needs_human to approved or from
\* ready_to_submit to approved (a queued Finding is not moved directly to approved),
\* and no Finding ever has status submitted or paid.
C22_FindingEdges ==
    /\ [][\A i \in 1..Len(FINDINGS) :
            FINDINGS'[i].status # FINDINGS[i].status =>
                /\ FINDINGS[i].status \in {"needs_human", "ready_to_submit"}
                /\ FINDINGS'[i].status = "approved"]_vars
    /\ [](\A i \in 1..Len(FINDINGS) : FINDINGS[i].status \notin {"submitted", "paid"})

-----------------------------------------------------------------------------
\* C23: statusSummary reports an active-scan count equal to the number of Scans whose
\* status is not one of completed, stopped, failed.
C23_ActiveScans ==
    response.op = "mcp_status" =>
        response.body.activeScans =
            Cardinality({scan_id \in 1..Len(SCAN_STATUSES) :
                            SCAN_STATUSES[scan_id].status \notin {"completed", "stopped", "failed"}})

-----------------------------------------------------------------------------
\* what a step adds to the logs and to the artifacts of an activity
AddedLogs(a) ==
    IF a \in DOMAIN ACTIVITY_LOGS
    THEN {ACTIVITY_LOGS'[a][i] : i \in (Len(ACTIVITY_LOGS[a]) + 1)..Len(ACTIVITY_LOGS'[a])}
    ELSE {ACTIVITY_LOGS'[a][i] : i \in 1..Len(ACTIVITY_LOGS'[a])}

AddedArtifacts(a) ==
    {ARTIFACTS'[k] : k \in {k \in DOMAIN ARTIFACTS' \ DOMAIN ARTIFACTS : k[1] = a}}

\* C24: while a Scan's status is stopped, no step of its simulation begins a stage or
\* creates a Run; a step taken from a stage's delay adds only logs, artifacts and the
\* Finding of that one stage, and a step taken from any other point adds none; the
\* boundary check that follows sees the stop: the task leaves its loop there with the
\* Activity cancelled.
C24_StopIsCooperative ==
    [][\A scan_id \in DOMAIN task :
          (SCAN_STATUSES[scan_id].status = "stopped" /\ task'[scan_id] # task[scan_id]) =>
              LET T == task[scan_id]
                  a == task'[scan_id].activity_id
                  underway == T.pc \in {"delay", "emit_finding"}
              IN /\ task'[scan_id].pc # "delay"
                 /\ Len(ACTIVITY_RUNS'[a]) = (IF Started(scan_id) THEN Len(RunsOf(scan_id)) ELSE 0)
                 /\ \A log \in AddedLogs(a) :
                       log.runId = NoRun \/ (underway /\ log.runId = T.run_id)
                 /\ \A artifact \in AddedArtifacts(a) : underway /\ artifact.runId = T.run_id
                 /\ (\E i \in (Len(FINDINGS) + 1)..Len(FINDINGS') : FINDINGS'[i].activityId = a) =>
                       T.pc = "delay" /\ Stages[T.stage].job_name = "exploitation"
                 /\ ((\E k \in 1..Len(Stages) : AtBoundaryNext(scan_id, k))
                        /\ ~SimFault(scan_id)) =>
                       /\ task'[scan_id].pc = "final_scan"
                       /\ ACTIVITIES'[ActivityIndex(ACTIVITIES', a)].status = "cancelled"]_vars

\* a Scan stopped during the delay of its third stage: that stage's Finding and
\* artifacts are there, a fourth Run is not
C24_Witness ==
    \E scan_id \in DOMAIN task :
        /\ Finished(scan_id)
        /\ SCAN_STATUSES[scan_id].status = "stopped"
        /\ BrokeAt(scan_id, 4)
        /\ Len(RunsOf(scan_id)) = 3
        /\ FindingsOf(task[scan_id].activity_id) # {}
        /\ \E k \in DOMAIN ARTIFACTS : ARTIFACTS[k].name = "http_request.txt"

-----------------------------------------------------------------------------
\* the scans whose simulation has created its Activity
StartedScans == {scan_id \in DOMAIN task : Started(scan_id)}

\* C25: with several scans simulated at once, in every state each started Scan has
\* one Activity of its own (the one its record names; no two scans share one, and
\* there are as many Activities as started scans); every Run in an Activity's list
\* carries that Activity's identifier, the Run its scan is working on is in its own
\* list, and the job names of the list are the first stages in their order: recon,
\* analysis, exploitation, reporting, completion. A simulation never changes the
\* Activity it drives.
C25_ScansKeptApart ==
    /\ [](/\ Len(ACTIVITIES) = Cardinality(StartedScans)
          /\ \A s1, s2 \in StartedScans :
                task[s1].activity_id = task[s2].activity_id => s1 = s2
          /\ \A scan_id \in StartedScans :
                LET T == task[scan_id]
                    runs == RunsOf(scan_id)
                IN /\ SCAN_STATUSES[scan_id].activityId = T.activity_id
                   /\ Cardinality({i \in 1..Len(ACTIVITIES) :
                                      ACTIVITIES[i].id = T.activity_id}) = 1
                   /\ \A j \in 1..Len(runs) : runs[j].activityId = T.activity_id
                   /\ Len(runs) <= Len(Stages)
                   /\ JobNames(runs) = StageJobs(Len(runs))
                   /\ T.pc \in {"delay", "emit_finding"} =>
                         /\ Len(runs) = T.stage
                         /\ runs[T.stage].id = T.run_id)
    /\ [][\A scan_id \in StartedScans :
            task'[scan_id].activity_id = task[scan_id].activity_id]_vars

\* two scans in flight at different stages, the one queued second being ahead
C25_Witness ==
    /\ StartedScans = {1, 2}
    /\ task[1].pc = "delay" /\ task[1].stage = 2
    /\ task[2].pc = "delay" /\ task[2].stage = 4
    /\ Len(RunsOf(1)) = 2 /\ Len(RunsOf(2)) = 4

----
\* C26: the identifiers of the Findings are pairwise distinct in every state, whatever
\* the number of scans and however their stages and the approvals interleave; a
\* Finding added by a step gets an identifier that no Finding had before the step.
C26_FindingIdsDistinct ==
    /\ [](\A i, j \in 1..Len(FINDINGS) : FINDINGS[i].id = FINDINGS[j].id => i = j)
    /\ [][\A i \in (Len(FINDINGS) + 1)..Len(FINDINGS') :
            /\ FINDINGS'[i].id = FindingName(i)
            /\ \A j \in 1..Len(FINDINGS) : FINDINGS[j].id # FINDINGS'[i].id]_vars

\* two scans have each added a Finding, and the first of them has been approved
C26_Witness ==
    /\ Len(FINDINGS) = Len(SeedFindings) + 2
    /\ FINDINGS[Len(SeedFindings) + 1].activityId # FINDINGS[Len(SeedFindings) + 2].activityId
    /\ FINDINGS[Len(SeedFindings) + 1].status = "approved"
    /\ FINDINGS[Len(SeedFindings) + 2].status = "needs_human"

-----------------------------------------------------------------------------
\* C27: under the boundary operations and the simulation steps, every key of the Run
\* index and every key of the Log index is the identifier of exactly one Activity
\* record, and no two Activity records have the same identifier.
C27_IndexKeysAreActivities ==
    /\ \A a \in DOMAIN ACTIVITY_RUNS \cup DOMAIN ACTIVITY_LOGS :
          Cardinality({i \in 1..Len(ACTIVITIES) : ACTIVITIES[i].id = a}) = 1
    /\ \A i, j \in 1..Len(ACTIVITIES) : ACTIVITIES[i].id = ACTIVITIES[j].id => i = j

\* a cancel request for an identifier that no Activity has is refused while a scan's
\* Activity holds runs and logs
C27_Witness ==
    /\ Len(ACTIVITIES) = 1
    /\ Len(ACTIVITY_RUNS[ACTIVITIES[1].id]) >= 2
    /\ Len(ACTIVITY_LOGS[ACTIVITIES[1].id]) >= 3
    /\ response.op = "cancel_activity"
    /\ response.arg = ToString(UnknownId)
    /\ response.code = 404
    /\ UnknownId \notin DOMAIN ACTIVITY_LOGS \cup DOMAIN ACTIVITY_RUNS

----
\* what get_activity_logs was asked and what it answered
LogsAsked == response.op = "get_activity_logs"

\* C28: log_activity always appends: called for an identifier without a log sequence
\* it creates the sequence holding the entry, called for one with a sequence it puts
\* the entry at its end. A log sequence comes into being only with a new Activity
\* (empty) or with such a first entry, and is never dropped. get_activity_logs answers
\* 404 exactly for an identifier without a log sequence, and 200 otherwise.
C28_TolerantAppend ==
    /\ [][\A activity_id \in TrackedInputs : \A run_id \in RunInputs(activity_id) :
            call_log_activity(activity_id, "info", "Found 10 subdomains", run_id) =>
                /\ activity_id \in DOMAIN ACTIVITY_LOGS'
                /\ ACTIVITY_LOGS'[activity_id] =
                      Append(StoredLogs(activity_id),
                             [level |-> "info", message |-> "Found 10 subdomains",
                              runId |-> run_id])]_vars
    /\ [][/\ DOMAIN ACTIVITY_LOGS \subseteq DOMAIN ACTIVITY_LOGS'
          /\ \A a \in DOMAIN ACTIVITY_LOGS' \ DOMAIN ACTIVITY_LOGS :
                \/ /\ Len(ACTIVITIES') = Len(ACTIVITIES) + 1
                   /\ ACTIVITIES'[Len(ACTIVITIES')].id = a
                   /\ ACTIVITY_LOGS'[a] = <<>>
                \/ /\ ACTIVITIES' = ACTIVITIES
                   /\ Len(ACTIVITY_LOGS'[a]) = 1]_vars
    /\ [](LogsAsked =>
            /\ response.code \in {200, 404}
            /\ response.code = 404 <=> response.arg[1] \notin DOMAIN ACTIVITY_LOGS)

\* the logs of an identifier that no Activity has are read back after an entry was
\* logged for it
C28_Witness ==
    /\ LogsAsked
    /\ response.arg[1] = UnknownId
    /\ response.code = 200
    /\ Len(response.body.logs) >= 1
    /\ \A i \in 1..Len(ACTIVITIES) : ACTIVITIES[i].id # UnknownId

----
\* the positions of the entries of a run, and the k-th of them
EntriesOfRun(logs, run_id) == {i \in 1..Len(logs) : logs[i].runId = run_id}

NthEntryOfRun(logs, run_id, k) ==
    CHOOSE i \in EntriesOfRun(logs, run_id) :
        Cardinality({j \in EntriesOfRun(logs, run_id) : j < i}) = k - 1

\* C29: every step leaves each log sequence a prefix of what it becomes (entries are
\* only added at the end; none is changed, removed or moved), so the sequence of any
\* earlier state is a prefix of that of any later state; and get_activity_logs asked
\* with a run identifier answers the entries of that run, all of them and no others,
\* in the order they were logged.
C29_AppendOnly ==
    /\ [][\A a \in DOMAIN ACTIVITY_LOGS :
            /\ a \in DOMAIN ACTIVITY_LOGS'
            /\ Len(ACTIVITY_LOGS'[a]) >= Len(ACTIVITY_LOGS[a])
            /\ SubSeq(ACTIVITY_LOGS'[a], 1, Len(ACTIVITY_LOGS[a])) = ACTIVITY_LOGS[a]]_vars
    /\ [](LogsAsked /\ response.code = 200 /\ response.arg[2] # NoRun =>
            LET logs == ACTIVITY_LOGS[response.arg[1]]
                run_id == response.arg[2]
                answered == response.body.logs
            IN /\ Len(answered) = Cardinality(EntriesOfRun(logs, run_id))
               /\ \A k \in 1..Len(answered) :
                     answered[k] = logs[NthEntryOfRun(logs, run_id, k)])

\* three entries, the second without a run: asked for the run, the first and the third
\* are answered
C29_Witness ==
    /\ LogsAsked
    /\ response.code = 200
    /\ response.arg[2] # NoRun
    /\ Len(ACTIVITY_LOGS[response.arg[1]]) = 3
    /\ ACTIVITY_LOGS[response.arg[1]][2].runId = NoRun
    /\ Len(response.body.logs) = 2

----
\* C30: add_artifact always stores the artifact in ARTIFACTS under a new identifier,
\* with the content it was given and size the length of that content, leaving the
\* artifacts already stored as they were; if an Activity has the identifier named, the
\* new artifact identifier is appended to that Activity's list and nothing else of
\* ACTIVITIES changes; if none has, ACTIVITIES does not change at all.
C30_AddArtifact ==
    [][\A activity_id \in TrackedInputs : \A content \in ContentInputs :
          call_add_artifact(activity_id, "vulnerability_report.md", content, "text", NoRun) =>
              \E k \in DOMAIN ARTIFACTS' \ DOMAIN ARTIFACTS :
                  /\ DOMAIN ARTIFACTS' = DOMAIN ARTIFACTS \cup {k}
                  /\ \A old \in DOMAIN ARTIFACTS : ARTIFACTS'[old] = ARTIFACTS[old]
                  /\ ARTIFACTS'[k].id = k
                  /\ ARTIFACTS'[k].content = content
                  /\ ARTIFACTS'[k].size = Len(content)
                  /\ LET i == ActivityIndex(ACTIVITIES, activity_id)
                     IN IF i # 0
                        THEN ACTIVITIES' = [ACTIVITIES EXCEPT ![i].artifacts = Append(@, k)]
                        ELSE ACTIVITIES' = ACTIVITIES]_vars

\* two artifacts stored, one in the list of the Activity and one that no Activity lists
C30_Witness ==
    /\ Len(ACTIVITIES) = 1
    /\ Len(ACTIVITIES[1].artifacts) = 1
    /\ Cardinality(DOMAIN ARTIFACTS) = 2
    /\ \E k \in DOMAIN ARTIFACTS :
          /\ k[1] = UnknownId
          /\ ARTIFACTS[k].size > 0
          /\ \A i \in 1..Len(ACTIVITIES) :
                \A j \in 1..Len(ACTIVITIES[i].artifacts) : ACTIVITIES[i].artifacts[j] # k

-----------------------------------------------------------------------------
\* the places of the artifact lists that hold an artifact identifier
ReferencesTo(artifact_id) ==
    {<<i, j>> \in UNION {{i} \X (1..Len(ACTIVITIES[i].artifacts)) : i \in 1..Len(ACTIVITIES)} :
        ACTIVITIES[i].artifacts[j] = artifact_id}

\* C31: under the boundary operations and the steps of scans simulated at the same
\* time, every artifact of ARTIFACTS is in the artifact list of exactly one Activity,
\* once; every identifier of an artifact list is a key of ARTIFACTS; and the listing
\* of an Activity's artifacts answers one artifact for each identifier of its list,
\* in list order.
C31_ArtifactsLinked ==
    /\ \A k \in DOMAIN ARTIFACTS : Cardinality(ReferencesTo(k)) = 1
    /\ \A i \in 1..Len(ACTIVITIES) :
          \A j \in 1..Len(ACTIVITIES[i].artifacts) :
              ACTIVITIES[i].artifacts[j] \in DOMAIN ARTIFACTS
    /\ (response.op = "get_activity_artifacts" /\ response.code = 200) =>
          LET list == ACTIVITIES[ActivityIndex(ACTIVITIES, response.arg)].artifacts
          IN /\ Len(response.body.artifacts) = Len(list)
             /\ \A j \in 1..Len(list) : response.body.artifacts[j] = ARTIFACTS[list[j]]

\* two scans have both stored artifacts, and the artifacts of the second are listed
C31_Witness ==
    /\ Len(ACTIVITIES) = 2
    /\ Len(ACTIVITIES[1].artifacts) >= 1
    /\ response.op = "get_activity_artifacts"
    /\ response.arg = ACTIVITIES[2].id
    /\ response.code = 200
    /\ Len(response.body.artifacts) >= 3

----
\* the artifacts of a full run in the order of their deposit: the stage and the type
FullRunArtifacts ==
    << [job_name |-> "recon", type |-> "text"],
       [job_name |-> "exploitation", type |-> "text"],
       [job_name |-> "exploitation", type |-> "http_request"],
       [job_name |-> "reporting", type |-> "text"] >>

CompletedRuns(scan_id) ==
    {j \in 1..Len(RunsOf(scan_id)) : RunsOf(scan_id)[j].status = "completed"}

\* C32: the artifact list of a scan's Activity is at any moment an initial segment of:
\* one text artifact of the recon run, the text PoC and the http_request dump of the
\* exploitation run, one text artifact of the reporting run, each carrying the
\* identifier of that run; once all five runs are completed the list is the whole of
\* it: exactly 4 artifacts, none from analysis or completion.
C32_FourArtifacts ==
    \A scan_id \in DOMAIN task :
        Started(scan_id) =>
            LET list == ActivityOf(task[scan_id].activity_id).artifacts
                runs == RunsOf(scan_id)
            IN /\ Len(list) <= Len(FullRunArtifacts)
               /\ \A j \in 1..Len(list) :
                     LET artifact == ARTIFACTS[list[j]]
                     IN /\ artifact.type = FullRunArtifacts[j].type
                        /\ \E r \in 1..Len(runs) :
                              /\ runs[r].id = artifact.runId
                              /\ runs[r].jobName = FullRunArtifacts[j].job_name
               /\ Cardinality(CompletedRuns(scan_id)) = Len(Stages) =>
                     Len(list) = Len(FullRunArtifacts)

\* a simulation has run its five stages and its Activity lists the four artifacts
C32_Witness ==
    \E scan_id \in DOMAIN task :
        /\ Finished(scan_id)
        /\ Cardinality(CompletedRuns(scan_id)) = Len(Stages)
        /\ Len(ActivityOf(task[scan_id].activity_id).artifacts) = 4
        /\ SCAN_STATUSES[scan_id].status = "completed"

----
ActivityIds == {ACTIVITIES[i].id : i \in 1..Len(ACTIVITIES)}

\* C33: update_activity_status called with an identifier that no Activity has, with
\* any status and with or without a conclusion, changes nothing: every Activity, Run
\* list, log sequence, artifact, Scan and Finding is as before.
C33_UpdateUnknownIsNoOp ==
    [][\A activity_id \in LedgerActivityInputs \ ActivityIds :
          \A status \in StatusInputs : \A conclusion \in ConclusionInputs :
              call_update_activity_status(activity_id, status, conclusion) =>
                  UNCHANGED <<ACTIVITIES, ACTIVITY_RUNS, ACTIVITY_LOGS, ARTIFACTS,
                              FINDINGS, SCAN_STATUSES>>]_vars

\* a state in which such a call has something to spare: an Activity in progress with
\* runs, logs and artifacts, and an identifier that no Activity has (a cancel request
\* for it was just refused)
C33_Witness ==
    /\ Len(ACTIVITIES) = 1
    /\ ACTIVITIES[1].status = "in_progress"
    /\ Len(ACTIVITY_RUNS[ACTIVITIES[1].id]) >= 2
    /\ Len(ACTIVITIES[1].artifacts) >= 1
    /\ LedgerActivityInputs \ ActivityIds # {}
    /\ response.op = "cancel_activity" /\ response.code = 404
    /\ ENABLED (\E activity_id \in LedgerActivityInputs \ ActivityIds :
                   call_update_activity_status(activity_id, "failed", "success"))

----
\* C34: the run count of the Activity record that get_activity_details answers is the
\* number of Runs of the same answer, whether or not the Activity was ever listed.
C34_DetailRunCount ==
    (response.op = "get_activity_details" /\ response.code = 200) =>
        response.body.activity.runCount = Len(response.body.runs)

----
NewFindingEvents(events) == {i \in 1..Len(events) : events[i].name = "new_finding"}

\* the artifacts stored for a run, by name
StoredFor(run_id, name) ==
    {k \in DOMAIN ARTIFACTS : ARTIFACTS[k].runId = run_id /\ ARTIFACTS[k].name = name}

\* C35: the Finding that a step of a simulation adds has the programId of that
\* simulation's Scan, the identifier of its Activity, type XSS, severity 6.5 and payout
\* estimate 5000, and the task then stands at the publish of new_finding. A step
\* publishes new_finding only from there, once, for the Finding of the task's Activity:
\* a Finding that is already in the registry, with the PoC and the request dump of the
\* exploitation run stored. An Activity has at most one Finding and a task comes to
\* that publish only by adding it, so no Finding is announced twice; and every step
\* that leaves the publish without a fault has announced it.
C35_FindingAnnounced ==
    /\ [][\A i \in (Len(FINDINGS) + 1)..Len(FINDINGS') :
            \E scan_id \in DOMAIN task :
                /\ task[scan_id].pc = "delay" /\ task'[scan_id].pc = "emit_finding"
                /\ FINDINGS'[i].programId = SCAN_STATUSES[scan_id].programId
                /\ FINDINGS'[i].activityId = SCAN_STATUSES[scan_id].activityId
                /\ FINDINGS'[i].activityId = task[scan_id].activity_id
                /\ FINDINGS'[i].type = "XSS"
                /\ FINDINGS'[i].severity10 = 65
                /\ FINDINGS'[i].payoutEst = 5000]_vars
    /\ [][\A scan_id \in DOMAIN task :
            (task'[scan_id].pc = "emit_finding" /\ task[scan_id].pc # "emit_finding") =>
                \E i \in (Len(FINDINGS) + 1)..Len(FINDINGS') :
                    FINDINGS'[i].activityId = task[scan_id].activity_id]_vars
    /\ [][NewFindingEvents(emitted') # {} =>
            /\ Cardinality(NewFindingEvents(emitted')) = 1
            /\ \E scan_id \in DOMAIN task :
                  LET T == task[scan_id]
                  IN /\ T.pc = "emit_finding" /\ task'[scan_id].pc # "emit_finding"
                     /\ \E i \in 1..Len(FINDINGS) :
                           /\ FINDINGS[i].activityId = T.activity_id
                           /\ \A e \in NewFindingEvents(emitted') :
                                 emitted'[e].id = FINDINGS[i].id
                     /\ StoredFor(T.run_id, "xss_poc.html") # {}
                     /\ StoredFor(T.run_id, "http_request.txt") # {}]_vars
    /\ [][\A scan_id \in DOMAIN task :
            (task[scan_id].pc = "emit_finding" /\ task'[scan_id] # task[scan_id]
                /\ ~SimFault(scan_id)) =>
                    NewFindingEvents(emitted') # {}]_vars
    /\ [](\A scan_id \in DOMAIN task :
            Started(scan_id) => Cardinality(FindingsOf(task[scan_id].activity_id)) <= 1)

\* C35 as stated: exactly one new_finding event is published for every Finding a
\* simulation adds, that is, every step that takes a task away from the publish of
\* line 332 has published it.
C35_AlwaysAnnounced ==
    [][\A scan_id \in DOMAIN task :
          (task[scan_id].pc = "emit_finding" /\ task'[scan_id] # task[scan_id]) =>
              Cardinality(NewFindingEvents(emitted')) = 1]_vars

\* a simulation has announced its Finding and gone on to the reporting stage
C35_Witness ==
    \E scan_id \in DOMAIN task :
        /\ task[scan_id].pc = "delay"
        /\ Stages[task[scan_id].stage].job_name = "reporting"
        /\ NewFindingEvents(emitted) # {}
        /\ \E i \in FindingsOf(task[scan_id].activity_id) :
              /\ emitted[1].id = FINDINGS[i].id
              /\ FINDINGS[i].programId = "github"

----
\* a Finding but for its status and its approval timestamp
FindingKept(f) == [f EXCEPT !.status = "kept", !.approvedAt = NoTime]

\* C36: no step removes or moves a Finding; a step that changes a Finding is an
\* approve_finding request answered 200 that names it, it changes the status and the
\* approval timestamp of that Finding and nothing else of it, and every other Finding
\* is as before. Simulation steps, faults, stop and cancel requests and the read
\* operations therefore leave every existing Finding unchanged.
C36_FindingsFrame ==
    [][/\ Len(FINDINGS') >= Len(FINDINGS)
       /\ \A i \in 1..Len(FINDINGS) :
             FINDINGS'[i] # FINDINGS[i] =>
                 /\ response'.op = "approve_finding"
                 /\ response'.code = 200
                 /\ response'.arg = FINDINGS[i].id
                 /\ approve_finding(FINDINGS[i].id)
                 /\ FindingKept(FINDINGS'[i]) = FindingKept(FINDINGS[i])
                 /\ Len(FINDINGS') = Len(FINDINGS)
                 /\ \A j \in 1..Len(FINDINGS) : j # i => FINDINGS'[j] = FINDINGS[j]
       /\ response'.op # "approve_finding" =>
             SubSeq(FINDINGS', 1, Len(FINDINGS)) = FINDINGS]_vars

\* the Finding of a simulation is approved while the seed findings are as they were
C36_Witness ==
    /\ Len(FINDINGS) = Len(SeedFindings) + 1
    /\ FINDINGS[Len(FINDINGS)].status = "approved"
    /\ SubSeq(FINDINGS, 1, Len(SeedFindings)) = SeedFindings
    /\ response.op = "approve_finding"
    /\ response.arg = FINDINGS[Len(FINDINGS)].id

----
\* C37: a Scan record that carries an activityId names exactly one Activity, of type
\* scan and with the programId of the Scan; the activityId is written by the first
\* step of the Scan's simulation, when the Scan has none, and no step changes it
\* afterwards.
C37_ScanActivity ==
    /\ [](\A scan_id \in DOMAIN SCAN_STATUSES :
            LET scan == SCAN_STATUSES[scan_id]
            IN scan.activityId # NoId =>
                  /\ Cardinality({i \in 1..Len(ACTIVITIES) :
                                     ACTIVITIES[i].id = scan.activityId}) = 1
                  /\ ActivityOf(scan.activityId).type = "scan"
                  /\ ActivityOf(scan.activityId).programId = scan.programId)
    /\ [][\A scan_id \in DOMAIN SCAN_STATUSES :
            SCAN_STATUSES'[scan_id].activityId # SCAN_STATUSES[scan_id].activityId =>
                /\ SCAN_STATUSES[scan_id].activityId = NoId
                /\ task[scan_id].pc = "start"
                /\ task'[scan_id].pc # "start"]_vars

\* a Scan that failed and was then stopped still names its Activity, failed too
C37_Witness ==
    \E scan_id \in DOMAIN SCAN_STATUSES :
        /\ SCAN_STATUSES[scan_id].activityId # NoId
        /\ SCAN_STATUSES[scan_id].status = "stopped"
        /\ ActivityOf(SCAN_STATUSES[scan_id].activityId).status = "failed"
        /\ ActivityOf(SCAN_STATUSES[scan_id].activityId).programId = "github"

----
\* the sum of the values of a function with a finite domain
RECURSIVE SumOf(_)
SumOf(counts) ==
    IF DOMAIN counts = {} THEN 0
    ELSE LET key == CHOOSE k \in DOMAIN counts : TRUE
         IN counts[key] + SumOf([k \in DOMAIN counts \ {key} |-> counts[k]])

\* C38: the findings summary answers total = the number of Findings; byType, keyed by
\* the types that occur, with counts that sum to total; and byStatus, keyed by exactly
\* queued, needs_human, approved, submitted, paid, with counts that sum to total less
\* the number of Findings whose status is none of these.
C38_FindingsSummary ==
    response.op = "mcp_findings_summary" =>
        LET body == response.body
            outside == {i \in 1..Len(FINDINGS) :
                           FINDINGS[i].status \notin
                               {"queued", "needs_human", "approved", "submitted", "paid"}}
        IN /\ response.code = 200
           /\ body.total = Len(FINDINGS)
           /\ DOMAIN body.byType = {FINDINGS[i].type : i \in 1..Len(FINDINGS)}
           /\ SumOf(body.byType) = body.total
           /\ DOMAIN body.byStatus = {"queued", "needs_human", "approved", "submitted", "paid"}
           /\ SumOf(body.byStatus) = body.total - Cardinality(outside)
           /\ \A status \in DOMAIN body.byStatus :
                 body.byStatus[status] =
                     Cardinality({i \in 1..Len(FINDINGS) : FINDINGS[i].status = status})

\* four findings, the simulation's approved, the seed ready_to_submit counted under no
\* status: the status counts sum to three
C38_Witness ==
    /\ response.op = "mcp_findings_summary"
    /\ response.body.total = 4
    /\ SumOf(response.body.byStatus) = 3
    /\ response.body.byStatus["approved"] >= 1
    /\ response.body.byType["XSS"] = 1

====
